---- MODULE Spec2Model ----
(***************************************************************************)
(* Quote2CSV: the pipeline of src/services/dataExtractor.js,               *)
(* src/services/dataTransformer.js and src/services/csvGenerator.js, and   *)
(* the conversion App.jsx runs through them.                               *)
(*                                                                         *)
(* Representation of JavaScript values:                                    *)
(*   - a string is a sequence of one-character strings;                    *)
(*   - a number is an exact fraction [n |-> numerator, d |-> denominator], *)
(*     d > 0, in lowest terms (the quantities are decimals with few        *)
(*     digits, far from the precision of a double);                        *)
(*   - null is Null; in a field that holds a number or '' the empty        *)
(*     string is EmptyStr; the status of the App, null or one of three     *)
(*     strings, is a string, NoStatus for null.                            *)
(***************************************************************************)
EXTENDS Integers, Sequences, FiniteSets, TLC

VARIABLES
  doc,        \* the rows of the quote's table, as printed
  text,       \* the text of the PDF handed to the extractors
  lineItems,  \* the line items handed to transformData
  call,       \* the other arguments of the transformData call, Null before it
  rows,       \* the rows transformData returned
  app,        \* the state of the App component: file, opportunityId, status, message
  invoked,    \* the services the conversion has called, in order
  download,   \* what downloadCSV was given, Null before it
  conversions, \* the runs of handleConvert, in the order of the clicks: what
              \* each closed over, and whether it still awaits the text
  ret,        \* a call of one function by itself: [fn, arg, value], Null before it
  pc          \* how far the run is

vars == <<doc, text, lineItems, call, rows, app, invoked, download, conversions,
          ret, pc>>

(***************************************************************************)
(* Characters and character classes of the regular expressions.            *)
(***************************************************************************)
Digits == <<"0","1","2","3","4","5","6","7","8","9">>

DigitChars == {Digits[i] : i \in 1..10}

UpperChars == {"A","B","C","D","E","F","G","H","I","J","K","L","M",
               "N","O","P","Q","R","S","T","U","V","W","X","Y","Z"}

LowerChars == {"a","b","c","d","e","f","g","h","i","j","k","l","m",
               "n","o","p","q","r","s","t","u","v","w","x","y","z"}

\* \w
WordChars == UpperChars \cup LowerChars \cup DigitChars \cup {"_"}

DigitVal(c) == (CHOOSE i \in 1..10 : Digits[i] = c) - 1

\* s.substring(i - 1) for a 1-based i
Drop(s, i) == SubSeq(s, i, Len(s))

\* the length of the longest run of characters of class cls that starts at s[i]
RECURSIVE RunLen(_, _, _)
RunLen(s, i, cls) ==
  IF i <= Len(s) /\ s[i] \in cls THEN 1 + RunLen(s, i + 1, cls) ELSE 0

\* whether the literal lit occurs in s at position i
LitAt(s, i, lit) ==
  /\ i + Len(lit) - 1 <= Len(s)
  /\ \A k \in 1..Len(lit) : s[i + k - 1] = lit[k]

(***************************************************************************)
(* Numbers.                                                                *)
(***************************************************************************)
Null == [null |-> TRUE]

EmptyStr == [str |-> <<>>]

IsNum(v) == "n" \in DOMAIN v

Abs(k) == IF k < 0 THEN -k ELSE k

RECURSIVE Gcd(_, _)
Gcd(a, b) == IF b = 0 THEN a ELSE Gcd(b, a % b)

\* the fraction n/d (d > 0) in lowest terms
Frac(n, d) ==
  LET g == Gcd(Abs(n), d) IN [n |-> n \div g, d |-> d \div g]

Int2Num(k) == Frac(k, 1)

NumSub(a, b) == Frac(a.n * b.d - b.n * a.d, a.d * b.d)

NumMul(a, b) == Frac(a.n * b.n, a.d * b.d)

\* a / b for b # 0
NumDiv(a, b) ==
  IF b.n > 0 THEN Frac(a.n * b.d, a.d * b.n)
  ELSE Frac(-(a.n * b.d), a.d * (-b.n))

NumLeq(a, b) == a.n * b.d <= b.n * a.d

\* JavaScript's ToBoolean on null, '' and numbers
Truthy(v) == IF IsNum(v) THEN v.n # 0 ELSE FALSE

\* the decimal digits of a natural number
RECURSIVE NatStr(_)
NatStr(k) ==
  IF k < 10 THEN <<Digits[k + 1]>>
  ELSE NatStr(k \div 10) \o <<Digits[(k % 10) + 1]>>

\* Number.prototype.toFixed(2): the nearest multiple of 1/100, the larger one
\* on a tie, after the sign has been set aside
ToFixed2(x) ==
  LET a == Abs(x.n)
      h == (2 * 100 * a + x.d) \div (2 * x.d)
  IN  (IF x.n < 0 THEN <<"-">> ELSE <<>>)
        \o NatStr(h \div 100) \o <<".">>
        \o <<Digits[((h \div 10) % 10) + 1], Digits[(h % 10) + 1]>>

(***************************************************************************)
(* utils/constants.js                                                      *)
(***************************************************************************)
TierHP == <<"H","P">>

TierC == <<"C">>

\* fixedPrice: 3.00 and fixedPrice: 0.30
FixedPriceHP == Frac(300, 100)

FixedPriceC == Frac(30, 100)

CodeSoftwareHP == <<"V","D","P","-","S","W","-","P","-","1","0","-","H","P">>

CodeSupportHP == <<"H","W","-","S","u","p","p","o","r","t","-","H","P","-","N","B","D">>

CodeSoftwareC == <<"V","D","P","-","S","W","-","P","-","1","0","-","C">>

CodeSupportC == <<"H","W","-","S","u","p","p","o","r","t","-","C","-","N","B","D">>

\* the en dash (U+2013) of the descriptions: one character, in no class of any
\* pattern
EnDash == "EN DASH"

DescSoftwareHP ==
  << "V","D","U","R","A"," ","D","a","t","a"," ","P","l","a","t",
     "f","o","r","m"," ",EnDash," ","P","h","y","s","i","c","a",
     "l",","," ","1","0","T","B",","," ","H","i","g","h"," ","P",
     "e","r","f","o","r","m","a","n","c","e"," ","T","i","e","r",
     ","," ","O","n","e"," ","M","o","n","t","h"," ","S","u","b",
     "s","c","r","i","p","t","i","o","n"," ","T","e","r","m" >>

DescSupportHP ==
  << "V","D","U","R","A"," ","C","a","r","e"," ",EnDash," ","P",
     "h","y","s","i","c","a","l"," ","1","0","T","B",","," ","H",
     "i","g","h"," ","P","e","r","f","o","r","m","a","n","c","e",
     " ","T","i","e","r",","," ","B","a","s","i","c"," ","S","u",
     "p","p","o","r","t" >>

DescSoftwareC ==
  << "V","D","U","R","A"," ","D","a","t","a"," ","P","l","a","t",
     "f","o","r","m"," ",EnDash," ","P","h","y","s","i","c","i",
     "a","l",","," ","1","0","T","B",","," ","C","a","p","a","c",
     "i","t","y"," ","T","i","e","r",","," ","O","n","e"," ","M",
     "o","n","t","h"," ","S","u","b","s","c","r","i","p","t","i",
     "o","n"," ","T","e","r","m" >>

DescSupportC ==
  << "V","D","U","R","A"," ","C","a","r","e"," ",EnDash," ","P",
     "h","y","s","i","c","a","l"," ","1","0","T","B",","," ","C",
     "a","p","a","c","i","t","y"," ","T","i","e","r",","," ","B",
     "a","s","i","c"," ","S","u","p","p","o","r","t" >>

\* The child catalog.
VDURACARE_CHILDREN ==
  [HP |-> [software |-> [code |-> CodeSoftwareHP, description |-> DescSoftwareHP],
           support  |-> [code |-> CodeSupportHP, fixedPrice |-> FixedPriceHP,
                         description |-> DescSupportHP]],
   C  |-> [software |-> [code |-> CodeSoftwareC, description |-> DescSoftwareC],
           support  |-> [code |-> CodeSupportC, fixedPrice |-> FixedPriceC,
                         description |-> DescSupportC]]]

\* The names every object literal inherits from Object.prototype: a lookup
\* VDURACARE_CHILDREN[name] finds them although the literal does not define them.
ObjectPrototypeKeys ==
  { <<"c","o","n","s","t","r","u","c","t","o","r">>,
    <<"t","o","S","t","r","i","n","g">>,
    <<"t","o","L","o","c","a","l","e","S","t","r","i","n","g">>,
    <<"v","a","l","u","e","O","f">>,
    <<"h","a","s","O","w","n","P","r","o","p","e","r","t","y">>,
    <<"i","s","P","r","o","t","o","t","y","p","e","O","f">>,
    <<"p","r","o","p","e","r","t","y","I","s","E","n","u","m","e","r","a","b","l","e">>,
    <<"_","_","p","r","o","t","o","_","_">>,
    <<"_","_","d","e","f","i","n","e","G","e","t","t","e","r","_","_">>,
    <<"_","_","d","e","f","i","n","e","S","e","t","t","e","r","_","_">>,
    <<"_","_","l","o","o","k","u","p","G","e","t","t","e","r","_","_">>,
    <<"_","_","l","o","o","k","u","p","S","e","t","t","e","r","_","_">> }

\* VDURACARE_CHILDREN[tier]: a catalog entry, an inherited member (truthy, with
\* no software or support property), or undefined
ChildDefs(tier) ==
  IF tier = TierHP THEN [kind |-> "entry", defs |-> VDURACARE_CHILDREN.HP]
  ELSE IF tier = TierC THEN [kind |-> "entry", defs |-> VDURACARE_CHILDREN.C]
  ELSE IF tier \in ObjectPrototypeKeys THEN [kind |-> "inherited"]
  ELSE [kind |-> "undefined"]

CarePrefix == <<"V","D","P","-","V","D","U","R","A","C","a","r","e","-">>

\* VDURACARE_PATTERN = /VDP-VDURACare-\d+-(\w+)/ matched at position i of s:
\* \d+ takes the whole run of digits (a shorter run is followed by a digit,
\* never by the hyphen) and (\w+) the whole run of word characters
CarePatternAt(s, i) ==
  /\ LitAt(s, i, CarePrefix)
  /\ LET j  == i + Len(CarePrefix)
         nd == RunLen(s, j, DigitChars)
     IN  /\ nd >= 1
         /\ j + nd <= Len(s)
         /\ s[j + nd] = "-"
         /\ RunLen(s, j + nd + 1, WordChars) >= 1

\* partNo.match(VDURACARE_PATTERN): the leftmost match and its group 1
VduraCareMatch(partNo) ==
  IF \E i \in 1..Len(partNo) : CarePatternAt(partNo, i)
  THEN LET i  == CHOOSE k \in 1..Len(partNo) :
                   /\ CarePatternAt(partNo, k)
                   /\ \A m \in 1..(k - 1) : ~CarePatternAt(partNo, m)
           j  == i + Len(CarePrefix)
           t  == j + RunLen(partNo, j, DigitChars) + 1
       IN  [matched |-> TRUE,
            tier |-> SubSeq(partNo, t, t + RunLen(partNo, t, WordChars) - 1)]
  ELSE [matched |-> FALSE, tier |-> <<>>]

DEFAULT_STATUS == <<"N","e","w">>

BASE_PRODUCT_CODE == <<"v","5","0","0","0">>

BASE_DESCRIPTION == <<"v","5","0","0","0">>

(***************************************************************************)
(* services/dataExtractor.js: numbers                                      *)
(***************************************************************************)
NaN == [nan |-> TRUE]

RECURSIVE Pow10(_)
Pow10(k) == IF k = 0 THEN 1 ELSE 10 * Pow10(k - 1)

\* the value of a string of decimal digits (0 for the empty string)
RECURSIVE DigitsValue(_)
DigitsValue(s) ==
  IF s = <<>> THEN 0
  ELSE 10 * DigitsValue(SubSeq(s, 1, Len(s) - 1)) + DigitVal(s[Len(s)])

\* the characters of s that are not in cls, in order
RECURSIVE Strip(_, _)
Strip(s, cls) ==
  IF s = <<>> THEN <<>>
  ELSE (IF s[1] \in cls THEN <<>> ELSE <<s[1]>>) \o Strip(Drop(s, 2), cls)

WhiteSpace == {" ", "\t", "\n", "\r"}

\* the number parseFloat reads: sign sgn, the digits mant of the integer and
\* fraction parts, nf of them in the fraction, and an exponent part that
\* starts at s[e], when s[e] is e or E and digits follow it and its sign
FloatWithExponent(s, sgn, mant, nf, e) ==
  LET eSign  == e + 1 <= Len(s) /\ s[e + 1] \in {"+", "-"}
      eStart == IF eSign THEN e + 2 ELSE e + 1
      ne     == IF e <= Len(s) /\ s[e] \in {"e", "E"}
                THEN RunLen(s, eStart, DigitChars) ELSE 0
      exp    == DigitsValue(SubSeq(s, eStart, eStart + ne - 1))
  IN  IF ne > 0 /\ eSign /\ s[e + 1] = "-"
      THEN Frac(sgn * mant, Pow10(nf) * Pow10(exp))
      ELSE Frac(sgn * mant * Pow10(exp), Pow10(nf))

\* parseFloat from the integer digits s[start..dot-1] on, nf digits after the
\* point when s[dot] is one; NaN when the mantissa holds no digit
FloatWithFraction(s, start, dot, nf) ==
  IF (dot - start) + nf = 0 THEN NaN
  ELSE FloatWithExponent(s,
         IF s[1] = "-" THEN -1 ELSE 1,
         DigitsValue(SubSeq(s, start, dot - 1) \o SubSeq(s, dot + 1, dot + nf)),
         nf,
         IF dot <= Len(s) /\ s[dot] = "." THEN dot + 1 + nf ELSE dot)

\* parseFloat from the first digit position start on
FloatFrom(s, start, dot) ==
  FloatWithFraction(s, start, dot,
    IF dot <= Len(s) /\ s[dot] = "." THEN RunLen(s, dot + 1, DigitChars) ELSE 0)

\* parseFloat on a string with no leading white space: the longest prefix
\* [+-]digits[.digits][(e|E)[+-]digits]; NaN when it holds no digit
\* (the literal Infinity is not modelled)
ParseFloat(s) ==
  LET start == IF s # <<>> /\ s[1] \in {"+", "-"} THEN 2 ELSE 1
  IN  FloatFrom(s, start, start + RunLen(s, start, DigitChars))

\* x || 0 for the result x of parseFloat
OrZero(x) == IF x = NaN THEN Int2Num(0) ELSE x

\* a variant that removes the $ and the spaces and keeps the commas
parseCurrency_CommasKept(str) ==
  IF str = <<>> THEN Int2Num(0)
  ELSE OrZero(ParseFloat(Strip(str, {"$"} \cup WhiteSpace)))

parseCurrency(str) ==
  IF str = <<>> THEN Int2Num(0)
  ELSE OrZero(ParseFloat(Strip(str, {"$", ","} \cup WhiteSpace)))

(***************************************************************************)
(* String.prototype.replace with a global pattern.                         *)
(***************************************************************************)
LowerSeq == <<"a","b","c","d","e","f","g","h","i","j","k","l","m",
              "n","o","p","q","r","s","t","u","v","w","x","y","z">>

UpperSeq == <<"A","B","C","D","E","F","G","H","I","J","K","L","M",
              "N","O","P","Q","R","S","T","U","V","W","X","Y","Z">>

\* the canonical form the i flag compares
ToUpper(c) ==
  IF c \in LowerChars THEN UpperSeq[CHOOSE i \in 1..26 : LowerSeq[i] = c] ELSE c

\* whether the literal lit occurs in s at position i, letter case ignored
LitAtI(s, i, lit) ==
  /\ i + Len(lit) - 1 <= Len(s)
  /\ \A k \in 1..Len(lit) : ToUpper(s[i + k - 1]) = ToUpper(lit[k])

\* the length of the run of white space that starts at s[i]: what a greedy
\* \s+ or \s* takes when a character that is no white space must follow
WsRun(s, i) == RunLen(s, i, WhiteSpace)

\* s.replace(/pattern/g, replacement) from position i on: len[j] is the length
\* of the match that starts at j (0: none) and rep[j] what replaces it; the
\* leftmost match is replaced, what precedes it is kept, and the scan goes on
\* after the match, never looking at a replacement again
RECURSIVE ReplaceFrom(_, _, _, _)
ReplaceFrom(s, len, rep, i) ==
  LET starts == {j \in i..Len(s) : len[j] > 0}
  IN  IF starts = {} THEN Drop(s, i)
      ELSE LET j == CHOOSE k \in starts : \A l \in starts : k <= l
           IN  SubSeq(s, i, j - 1) \o rep[j] \o ReplaceFrom(s, len, rep, j + len[j])

ReplaceAll(s, len, rep) == ReplaceFrom(s, len, rep, 1)

(***************************************************************************)
(* services/dataExtractor.js: normalizePdfText                             *)
(***************************************************************************)
\* /(\w)\s+-\s+(\w)/
HyphenLen(s, i) ==
  LET n1 == WsRun(s, i + 1)
      h  == i + 1 + n1
      n2 == WsRun(s, h + 1)
      w  == h + 1 + n2
  IN  IF /\ s[i] \in WordChars
         /\ n1 >= 1
         /\ h <= Len(s) /\ s[h] = "-"
         /\ n2 >= 1
         /\ w <= Len(s) /\ s[w] \in WordChars
      THEN w - i + 1 ELSE 0

\* .replace(/(\w)\s+-\s+(\w)/g, '$1-$2')
FixHyphens(s) ==
  ReplaceAll(s, [i \in 1..Len(s) |-> HyphenLen(s, i)],
                [i \in 1..Len(s) |-> <<s[i], "-", s[i + HyphenLen(s, i) - 1]>>])

\* /(-[A-Za-z])\s+(\d)/
SegmentLen(s, i) ==
  LET n == WsRun(s, i + 2)
      d == i + 2 + n
  IN  IF /\ s[i] = "-"
         /\ i + 1 <= Len(s) /\ s[i + 1] \in (UpperChars \cup LowerChars)
         /\ n >= 1
         /\ d <= Len(s) /\ s[d] \in DigitChars
      THEN d - i + 1 ELSE 0

\* .replace(/(-[A-Za-z])\s+(\d)/g, '$1$2')
FixSegments(s) ==
  ReplaceAll(s, [i \in 1..Len(s) |-> SegmentLen(s, i)],
                [i \in 1..Len(s) |-> <<s[i], s[i + 1], s[i + SegmentLen(s, i) - 1]>>])

\* /(\d{3})\s+(\d{1})(?!\d)/
YearLen(s, i) ==
  LET n == WsRun(s, i + 3)
      d == i + 3 + n
  IN  IF /\ i + 2 <= Len(s)
         /\ s[i] \in DigitChars /\ s[i + 1] \in DigitChars /\ s[i + 2] \in DigitChars
         /\ n >= 1
         /\ d <= Len(s) /\ s[d] \in DigitChars
         /\ ~(d + 1 <= Len(s) /\ s[d + 1] \in DigitChars)
      THEN d - i + 1 ELSE 0

\* .replace(/(\d{3})\s+(\d{1})(?!\d)/g, '$1$2')
FixYears(s) ==
  ReplaceAll(s, [i \in 1..Len(s) |-> YearLen(s, i)],
                [i \in 1..Len(s) |-> <<s[i], s[i + 1], s[i + 2], s[i + YearLen(s, i) - 1]>>])

\* /(\d)\s+(\d)\s*,/
DayLen(s, i) ==
  LET n1 == WsRun(s, i + 1)
      d  == i + 1 + n1
      n2 == WsRun(s, d + 1)
      c  == d + 1 + n2
  IN  IF /\ s[i] \in DigitChars
         /\ n1 >= 1
         /\ d <= Len(s) /\ s[d] \in DigitChars
         /\ c <= Len(s) /\ s[c] = ","
      THEN c - i + 1 ELSE 0

\* .replace(/(\d)\s+(\d)\s*,/g, '$1$2,')
FixDays(s) ==
  ReplaceAll(s, [i \in 1..Len(s) |-> DayLen(s, i)],
                [i \in 1..Len(s) |-> <<s[i], s[i + 1 + WsRun(s, i + 1)], ",">>])

\* /pre\s*suf/i, or /pre\s+suf/i when minWs is 1
SplitWordLen(s, i, pre, suf, minWs) ==
  LET n == WsRun(s, i + Len(pre))
  IN  IF /\ LitAtI(s, i, pre)
         /\ n >= minWs
         /\ LitAtI(s, i + Len(pre) + n, suf)
      THEN Len(pre) + n + Len(suf) ELSE 0

\* .replace(/pre\s*suf/gi, word)
FixWord(s, pre, suf, minWs, word) ==
  ReplaceAll(s, [i \in 1..Len(s) |-> SplitWordLen(s, i, pre, suf, minWs)],
                [i \in 1..Len(s) |-> word])

\* the ten vocabulary rules, in the order of the source
FixWords(s) ==
  LET w1  == FixWord(s,  <<"Q","u","o","t">>, <<"a","t","i","o","n">>, 0,
                     <<"Q","u","o","t","a","t","i","o","n">>)
      w2  == FixWord(w1, <<"C","o","m">>, <<"p","a","n","y">>, 0,
                     <<"C","o","m","p","a","n","y">>)
      w3  == FixWord(w2, <<"Q">>, <<"T","Y">>, 0, <<"Q","T","Y">>)
      w4  == FixWord(w3, <<"V","D","U","R","A">>, <<"C","a","r","e">>, 1,
                     <<"V","D","U","R","A"," ","C","a","r","e">>)
      w5  == FixWord(w4, <<"P","h","y">>, <<"s","i","c","a","l">>, 0,
                     <<"P","h","y","s","i","c","a","l">>)
      w6  == FixWord(w5, <<"S","u","b">>, <<"s","c","r","i","p","t","i","o","n">>, 0,
                     <<"S","u","b","s","c","r","i","p","t","i","o","n">>)
      w7  == FixWord(w6, <<"S","u","p">>, <<"p","o","r","t">>, 0,
                     <<"S","u","p","p","o","r","t">>)
      w8  == FixWord(w7, <<"S","o","f","t">>, <<"w","a","r","e">>, 0,
                     <<"S","o","f","t","w","a","r","e">>)
      w9  == FixWord(w8, <<"D","i","s">>, <<"c","o","u","n","t","e","d">>, 0,
                     <<"D","i","s","c","o","u","n","t","e","d">>)
  IN  FixWord(w9, <<"E","x">>, <<"t","e","n","d","e","d">>, 0,
              <<"E","x","t","e","n","d","e","d">>)

NonWs(s, i) == i <= Len(s) /\ s[i] \notin WhiteSpace

\* the length of the run of characters that are no white space from s[i] on
RECURSIVE NonWsRun(_, _)
NonWsRun(s, i) == IF NonWs(s, i) THEN 1 + NonWsRun(s, i + 1) ELSE 0

\* /(\S+)\s*@\s*(\S+)/ with group 1 = s[i..e]: the @ follows e (after white
\* space when e ends its run), and a character that is no white space follows
\* the @, after white space or not
EmailWith(s, i, e) ==
  LET at == e + 1 + WsRun(s, e + 1)
      g2 == at + 1 + WsRun(s, at + 1)
  IN  /\ at <= Len(s) /\ s[at] = "@"
      /\ NonWs(s, g2)

\* the end of group 1 for a match that starts at i: the greedy (\S+) gives
\* back as few characters as it can, so the largest e that matches; 0: none
EmailG1End(s, i) ==
  LET r  == i + NonWsRun(s, i) - 1
      es == {e \in i..r : EmailWith(s, i, e)}
  IN  IF NonWs(s, i) /\ es # {}
      THEN CHOOSE e \in es : \A f \in es : f <= e
      ELSE 0

\* where group 2 starts and ends for the match that starts at i
EmailG2Start(s, i) ==
  LET at == EmailG1End(s, i) + 1 + WsRun(s, EmailG1End(s, i) + 1)
  IN  at + 1 + WsRun(s, at + 1)

EmailLen(s, i) ==
  IF EmailG1End(s, i) = 0 THEN 0
  ELSE EmailG2Start(s, i) + NonWsRun(s, EmailG2Start(s, i)) - i

\* .replace(/(\S+)\s*@\s*(\S+)/g, '$1@$2')
FixEmails(s) ==
  IF \A i \in 1..Len(s) : s[i] # "@" THEN s
  ELSE ReplaceAll(s, [i \in 1..Len(s) |-> EmailLen(s, i)],
                     [i \in 1..Len(s) |->
                        SubSeq(s, i, EmailG1End(s, i)) \o <<"@">>
                          \o SubSeq(s, EmailG2Start(s, i), i + EmailLen(s, i) - 1)])

\* /\$\s+(\d)/
CurrencyLen(s, i) ==
  LET n == WsRun(s, i + 1)
      d == i + 1 + n
  IN  IF s[i] = "$" /\ n >= 1 /\ d <= Len(s) /\ s[d] \in DigitChars
      THEN d - i + 1 ELSE 0

\* .replace(/\$\s+(\d)/g, '$$1'): in a replacement string $$ stands for one
\* dollar sign, and the 1 that follows it is an ordinary character
FixCurrency(s) ==
  ReplaceAll(s, [i \in 1..Len(s) |-> CurrencyLen(s, i)],
                [i \in 1..Len(s) |-> <<"$", "1">>])

\* .replace(/\s+/g, ' ')
CollapseSpaces(s) ==
  ReplaceAll(s, [i \in 1..Len(s) |-> WsRun(s, i)],
                [i \in 1..Len(s) |-> <<" ">>])

normalizePdfText(t) ==
  CollapseSpaces(FixCurrency(FixEmails(FixWords(
    FixDays(FixYears(FixSegments(FixHyphens(t))))))))

(***************************************************************************)
(* services/dataExtractor.js: cleanDescription                             *)
(***************************************************************************)
\* String.prototype.trim
RECURSIVE Trim(_)
Trim(s) ==
  IF s = <<>> THEN s
  ELSE IF s[1] \in WhiteSpace THEN Trim(Drop(s, 2))
  ELSE IF s[Len(s)] \in WhiteSpace THEN Trim(SubSeq(s, 1, Len(s) - 1))
  ELSE s

\* .replace(/lit.*$/i, ''): what precedes the first occurrence of lit
CutAt(s, lit) ==
  IF \E i \in 1..Len(s) : LitAtI(s, i, lit)
  THEN LET i == CHOOSE k \in 1..Len(s) :
                  LitAtI(s, k, lit) /\ \A m \in 1..(k - 1) : ~LitAtI(s, m, lit)
       IN  SubSeq(s, 1, i - 1)
  ELSE s

cleanDescription(desc) ==
  IF desc = <<>> THEN <<>>
  ELSE LET d0 == CollapseSpaces(Trim(desc))
           d1 == CutAt(d0, <<"P","A","R","T"," ","N","O",".">>)
           d2 == CutAt(d1, <<"D","E","S","C","R","I","P","T","I","O","N">>)
           d3 == CutAt(d2, <<"Q","T","Y">>)
           d4 == CutAt(d3, <<"M","O","N","T","H","S">>)
           d5 == CutAt(d4, <<"L","I","S","T"," ","P","R","I","C","E">>)
           d6 == CutAt(d5, <<"D","I","S","C","O","U","N","T","E","D">>)
           d7 == CutAt(d6, <<"E","X","T","E","N","D","E","D">>)
           d8 == CutAt(d7, <<"T","o","t","a","l"," ","S","o","f","t","w","a","r","e">>)
           d9 == CutAt(d8, <<"T","o","t","a","l"," ","H","a","r","d","w","a","r","e">>)
       IN  Trim(d9)

(***************************************************************************)
(* services/dataExtractor.js: extractLineItems                             *)
(*                                                                         *)
(* The three patterns run over the normalized text, where every run of     *)
(* white space is one space: a \s+ has one way to match, and a greedy run  *)
(* that must be followed by \s+ is the whole run.                          *)
(***************************************************************************)
Letters == UpperChars \cup LowerChars

\* [\d,]
PriceChars == DigitChars \cup {","}

\* what . does not match
LineTerminators == {"\n", "\r"}

SvcPrefix == <<"S","V","C","-">>

VchPrefix == <<"V","C","H","-">>

\* \s+(\d+) at p: where the digits are
NumberField(s, p) ==
  LET from == p + WsRun(s, p)
  IN  [ok |-> WsRun(s, p) >= 1 /\ RunLen(s, from, DigitChars) >= 1,
       from |-> from, to |-> from + RunLen(s, from, DigitChars) - 1]

\* the last character of ([\d,]+\.?\d*) when it starts at from
PriceEnd(s, from) ==
  LET dot == from + RunLen(s, from, PriceChars)
  IN  IF dot <= Len(s) /\ s[dot] = "."
      THEN dot + RunLen(s, dot + 1, DigitChars) ELSE dot - 1

\* the captured group of the price that follows the white space at p, when
\* the group starts at from
PriceGroup(s, p, from) ==
  [ok |-> WsRun(s, p) >= 1 /\ RunLen(s, from, PriceChars) >= 1,
   from |-> from, to |-> PriceEnd(s, from)]

\* \s+\$?([\d,]+\.?\d*) at p: where the captured group is
PriceField(s, p) ==
  LET d == p + WsRun(s, p)
  IN  PriceGroup(s, p, IF d <= Len(s) /\ s[d] = "$" THEN d + 1 ELSE d)

\* what follows the description: \s+(\d+) for the quantity, the same for the
\* months of a care row, and three prices
FieldKinds(family) ==
  IF family = "care"
  THEN <<"number", "number", "price", "price", "price">>
  ELSE <<"number", "price", "price", "price">>

\* the fields of the kinds in kinds that match one after the other from p on,
\* up to the first that does not match
RECURSIVE FieldsFrom(_, _, _)
FieldsFrom(s, p, kinds) ==
  IF kinds = <<>> THEN <<>>
  ELSE LET f == IF Head(kinds) = "number" THEN NumberField(s, p) ELSE PriceField(s, p)
       IN  IF f.ok THEN <<f>> \o FieldsFrom(s, f.to + 1, Tail(kinds)) ELSE <<>>

\* whether all the fields of a row of the family match at p
FieldsAt(s, p, family) ==
  Len(FieldsFrom(s, p, FieldKinds(family))) = Len(FieldKinds(family))

\* the last character of the product code that starts at i, 0 when none does:
\* (VDP-VDURACare-\d+-[A-Z]+), (SVC-[A-Za-z0-9-]+), (VCH-[A-Za-z0-9.-]+), all
\* with the i flag
CodeEnd(s, i, family) ==
  IF family = "care"
  THEN LET p == i + Len(CarePrefix)
           n == RunLen(s, p, DigitChars)
           m == RunLen(s, p + n + 1, Letters)
       IN  IF /\ LitAtI(s, i, CarePrefix)
              /\ n >= 1
              /\ p + n <= Len(s) /\ s[p + n] = "-"
              /\ m >= 1
           THEN p + n + m ELSE 0
  ELSE LET prefix == IF family = "svc" THEN SvcPrefix ELSE VchPrefix
           cls    == Letters \cup DigitChars \cup
                       (IF family = "svc" THEN {"-"} ELSE {".", "-"})
           n      == RunLen(s, i + Len(prefix), cls)
       IN  IF LitAtI(s, i, prefix) /\ n >= 1 THEN i + Len(prefix) + n - 1 ELSE 0

\* the match whose code is s[i..e], whose description is s[d..p-1] and whose
\* fields are fs: group[k] is match[k] of the source, last the position of
\* the last character matched
MatchWith(s, i, e, d, p, fs) ==
  [ok    |-> TRUE,
   group |-> <<SubSeq(s, i, e), SubSeq(s, d, p - 1)>>
               \o [k \in 1..Len(fs) |-> SubSeq(s, fs[k].from, fs[k].to)],
   last  |-> fs[Len(fs)].to]

\* the least member of a set of positions that is not empty
Leftmost(ps) == CHOOSE q \in ps : \A r \in ps : q <= r

\* what follows the code s[i..e] in a match: \s+, the lazy (.+?), which is
\* the shortest description the fields can follow, and the fields; none when
\* e is 0
MatchAfterCode(s, i, e, family) ==
  LET d    == e + 1 + WsRun(s, e + 1)
      ends == {p \in (d + 1)..Len(s) :
                 /\ FieldsAt(s, p, family)
                 /\ \A k \in d..(p - 1) : s[k] \notin LineTerminators}
  IN  IF e = 0 \/ WsRun(s, e + 1) = 0 \/ ends = {}
      THEN [ok |-> FALSE]
      ELSE MatchWith(s, i, e, d, Leftmost(ends),
                     FieldsFrom(s, Leftmost(ends), FieldKinds(family)))

\* the match of the family's pattern that starts at i
MatchAt(s, i, family) == MatchAfterCode(s, i, CodeEnd(s, i, family), family)

\* the match at the leftmost of the positions where one starts
MatchAtLeftmost(s, starts, family) ==
  IF starts = {} THEN [ok |-> FALSE] ELSE MatchAt(s, Leftmost(starts), family)

\* pattern.exec(normalized) with pattern.lastIndex = lastIndex - 1
Exec(s, lastIndex, family) ==
  MatchAtLeftmost(s, {i \in lastIndex..Len(s) : MatchAt(s, i, family).ok}, family)

\* the matches the loop  while ((match = pattern.exec(normalized)) !== null)
\* sees, match being the first of them: each exec starts after the last
\* character of the match before
RECURSIVE MatchesFrom(_, _, _)
MatchesFrom(s, match, family) ==
  IF ~match.ok THEN <<>>
  ELSE <<match>> \o MatchesFrom(s, Exec(s, match.last + 1, family), family)

Matches(s, family) == MatchesFrom(s, Exec(s, 1, family), family)

\* `${code}-${match[3]}-${match[4]}` for a care row,
\* `${code}-${match[3]}-${match[6]}` for the other two
ItemKey(match, family) ==
  match.group[1] \o <<"-">> \o match.group[3] \o <<"-">>
    \o (IF family = "care" THEN match.group[4] ELSE match.group[6])

\* a variant that reads no months, as for the families that print none
ItemOf_NoMonths(match, family) ==
  [partNo        |-> match.group[1],
   description   |-> cleanDescription(match.group[2]),
   qty           |-> Int2Num(DigitsValue(match.group[3])),
   months        |-> Null,
   listPrice     |-> parseCurrency(match.group[Len(match.group) - 2]),
   discountPrice |-> parseCurrency(match.group[Len(match.group) - 1]),
   extendedPrice |-> parseCurrency(match.group[Len(match.group)])]

\* the object pushed for a match
ItemOf(match, family) ==
  IF family = "care"
  THEN [partNo        |-> match.group[1],
        description   |-> cleanDescription(match.group[2]),
        qty           |-> Int2Num(DigitsValue(match.group[3])),
        months        |-> Int2Num(DigitsValue(match.group[4])),
        listPrice     |-> parseCurrency(match.group[5]),
        discountPrice |-> parseCurrency(match.group[6]),
        extendedPrice |-> parseCurrency(match.group[7])]
  ELSE [partNo        |-> match.group[1],
        description   |-> cleanDescription(match.group[2]),
        qty           |-> Int2Num(DigitsValue(match.group[3])),
        months        |-> Null,
        listPrice     |-> parseCurrency(match.group[4]),
        discountPrice |-> parseCurrency(match.group[5]),
        extendedPrice |-> parseCurrency(match.group[6])]

\* the body of one loop over the matches ms[k..]: a match whose key was seen
\* pushes nothing
RECURSIVE PushUnseen(_, _, _, _)
PushUnseen(ms, k, seen, family) ==
  IF k > Len(ms) THEN <<>>
  ELSE IF ItemKey(ms[k], family) \in seen
       THEN PushUnseen(ms, k + 1, seen, family)
       ELSE <<ItemOf(ms[k], family)>>
              \o PushUnseen(ms, k + 1, seen \cup {ItemKey(ms[k], family)}, family)

FamilyItems(normalized, family) ==
  PushUnseen(Matches(normalized, family), 1, {}, family)

\* the three loops, in the order of the source
Families == <<"care", "svc", "vch">>

RECURSIVE ItemsOfFamilies(_, _)
ItemsOfFamilies(normalized, k) ==
  IF k > Len(Families) THEN <<>>
  ELSE FamilyItems(normalized, Families[k]) \o ItemsOfFamilies(normalized, k + 1)

extractLineItems(t) == ItemsOfFamilies(normalizePdfText(t), 1)

(***************************************************************************)
(* services/dataExtractor.js: parseDate                                    *)
(***************************************************************************)
\* dateStr.replace(/(\d)\s+(\d)/g, '$1$2')
DigitGapLen(s, i) ==
  IF /\ s[i] \in DigitChars
     /\ WsRun(s, i + 1) >= 1
     /\ i + 1 + WsRun(s, i + 1) <= Len(s)
     /\ s[i + 1 + WsRun(s, i + 1)] \in DigitChars
  THEN 2 + WsRun(s, i + 1)
  ELSE 0

CloseDigitGaps(s) ==
  ReplaceAll(s, [j \in 1..Len(s) |-> DigitGapLen(s, j)],
             [j \in 1..Len(s) |-> <<s[j], s[j + 1 + WsRun(s, j + 1)]>>])

\* /^\d{1,2}\/\d{1,2}\/\d{4}$/.test(s)
IsNumericDate(s) ==
  \E a, b \in 1..2 :
    /\ Len(s) = a + b + 6
    /\ \A k \in 1..Len(s) :
         IF k = a + 1 \/ k = a + b + 2 THEN s[k] = "/" ELSE s[k] \in DigitChars

\* the months table: full names and abbreviations, in lower case
MonthNames ==
  << <<<<"j","a","n","u","a","r","y">>, <<"j","a","n">>>>, <<<<"f","e","b","r","u","a","r","y">>, <<"f","e","b">>>>, <<<<"m","a","r","c","h">>, <<"m","a","r">>>>,
     <<<<"a","p","r","i","l">>, <<"a","p","r">>>>, <<<<"m","a","y">>>>, <<<<"j","u","n","e">>, <<"j","u","n">>>>, <<<<"j","u","l","y">>, <<"j","u","l">>>>,
     <<<<"a","u","g","u","s","t">>, <<"a","u","g">>>>, <<<<"s","e","p","t","e","m","b","e","r">>, <<"s","e","p">>, <<"s","e","p","t">>>>,
     <<<<"o","c","t","o","b","e","r">>, <<"o","c","t">>>>, <<<<"n","o","v","e","m","b","e","r">>, <<"n","o","v">>>>, <<<<"d","e","c","e","m","b","e","r">>, <<"d","e","c">>>> >>

\* String.prototype.toLowerCase
ToLower(c) ==
  IF c \in UpperChars THEN LowerSeq[CHOOSE i \in 1..26 : UpperSeq[i] = c] ELSE c

\* a variant that leaves the letters as they are written
toLowerCase_AsWritten(s) == s

toLowerCase(s) == [k \in 1..Len(s) |-> ToLower(s[k])]

\* String.prototype.padStart(2, '0')
PadStart2(s) == IF Len(s) < 2 THEN <<"0">> \o s ELSE s

\* months[name] || '01': the table's two digits for a name it holds; the text of
\* the member of Object.prototype the lookup finds for a name the literal
\* inherits; '01' for every other name
MonthOf(name) ==
  IF \E m \in 1..12 : \E k \in 1..Len(MonthNames[m]) : MonthNames[m][k] = name
  THEN PadStart2(NatStr(CHOOSE m \in 1..12 :
                          \E k \in 1..Len(MonthNames[m]) : MonthNames[m][k] = name))
  ELSE IF name = <<"c","o","n","s","t","r","u","c","t","o","r">> THEN <<"f","u","n","c","t","i","o","n"," ","O","b","j","e","c","t","(",")"," ","{"," ","[","n","a","t","i","v","e"," ","c","o","d","e","]"," ","}">>
  ELSE IF name = <<"_","_","p","r","o","t","o","_","_">> THEN <<"[","o","b","j","e","c","t"," ","O","b","j","e","c","t","]">>
  ELSE IF name \in ObjectPrototypeKeys
  THEN <<"f","u","n","c","t","i","o","n"," ">> \o name \o <<"(",")"," ","{"," ","[","n","a","t","i","v","e"," ","c","o","d","e","]"," ","}">>
  ELSE <<"0","1">>

\* where \s*,?\s*(\d{4}) ends when it starts at t, 0 when it does not match
YearEnd(s, t) ==
  LET c == t + WsRun(s, t)
      y == IF c <= Len(s) /\ s[c] = ","
           THEN c + 1 + WsRun(s, c + 1) ELSE c
  IN  IF RunLen(s, y, DigitChars) >= 4 THEN y + 3 ELSE 0

\* where (\d{1,2})\s*,?\s*(\d{4}) ends when it starts at r: two digits are
\* tried before one; day is the number of digits of the day
DayYear(s, r) ==
  IF RunLen(s, r, DigitChars) >= 2 /\ YearEnd(s, r + 2) > 0
  THEN [ok |-> TRUE, day |-> 2, last |-> YearEnd(s, r + 2)]
  ELSE IF RunLen(s, r, DigitChars) >= 1 /\ YearEnd(s, r + 1) > 0
  THEN [ok |-> TRUE, day |-> 1, last |-> YearEnd(s, r + 1)]
  ELSE [ok |-> FALSE]

\* /(\w+)\s*(\d{1,2})\s*,?\s*(\d{4})/i at position i: the longest \w+ after
\* which the rest matches; group[k] is match[k]
DateMatchAt(s, i) ==
  LET ls == {l \in 1..RunLen(s, i, WordChars) :
               DayYear(s, i + l + WsRun(s, i + l)).ok}
  IN  IF ls = {} THEN [ok |-> FALSE]
      ELSE LET l == CHOOSE x \in ls : \A y \in ls : y <= x
               r == i + l + WsRun(s, i + l)
               dy == DayYear(s, r)
           IN  [ok |-> TRUE,
                group |-> << SubSeq(s, i, i + l - 1),
                             SubSeq(s, r, r + dy.day - 1),
                             SubSeq(s, dy.last - 3, dy.last) >>]

\* cleaned.match(/(\w+)\s*(\d{1,2})\s*,?\s*(\d{4})/i): the leftmost match
DateMatch(s) ==
  LET starts == {i \in 1..Len(s) : DateMatchAt(s, i).ok}
  IN  IF starts = {} THEN [ok |-> FALSE]
      ELSE DateMatchAt(s, CHOOSE i \in starts : \A j \in starts : i <= j)

FormatDate(match) ==
  MonthOf(toLowerCase(match.group[1])) \o <<"/">> \o PadStart2(match.group[2])
    \o <<"/">> \o match.group[3]

ParsedOr(match, dateStr) == IF match.ok THEN FormatDate(match) ELSE dateStr

parseDate(dateStr) ==
  IF dateStr = <<>> THEN <<>>
  ELSE IF IsNumericDate(CloseDigitGaps(dateStr)) THEN CloseDigitGaps(dateStr)
  ELSE ParsedOr(DateMatch(CloseDigitGaps(dateStr)), dateStr)

(***************************************************************************)
(* services/dataExtractor.js: extractHeader, extractBaseProductCode        *)
(***************************************************************************)
\* where /w1\s*w2/i ends when it starts at i (the place after it), 0 when it
\* does not match
LabelEnd(s, i, w1, w2) ==
  IF /\ LitAtI(s, i, w1)
     /\ LitAtI(s, i + Len(w1) + WsRun(s, i + Len(w1)), w2)
  THEN i + Len(w1) + WsRun(s, i + Len(w1)) + Len(w2)
  ELSE 0

\* the leftmost match among those that start at 1..Len(at): at[i] is the match
\* that starts at i
LeftmostOf(at) ==
  LET starts == {i \in DOMAIN at : at[i].ok}
  IN  IF starts = {} THEN [ok |-> FALSE]
      ELSE at[CHOOSE i \in starts : \A j \in starts : i <= j]

\* \s*(\d+[-\d]*) at p, the place after the label
NumberGroup(s, p) ==
  LET q == p + WsRun(s, p)
  IN  IF p > 0 /\ RunLen(s, q, DigitChars) >= 1
      THEN [ok |-> TRUE,
            group |-> SubSeq(s, q, q + RunLen(s, q, DigitChars \cup {"-"}) - 1)]
      ELSE [ok |-> FALSE]

\* normalized.match(/Quote\s*Number\s*(\d+[-\d]*)/i)
QuoteNumberMatch(s) ==
  LeftmostOf([i \in 1..Len(s) |->
                NumberGroup(s, LabelEnd(s, i, <<"Q","u","o","t","e">>, <<"N","u","m","b","e","r">>))])

\* ([A-Za-z]+\s*\d{1,2}\s*,?\s*\d{4}) at q
DateGroupFrom(s, q) ==
  LET a == RunLen(s, q, Letters)
      dy == DayYear(s, q + a + WsRun(s, q + a))
  IN  IF a >= 1 /\ dy.ok
      THEN [ok |-> TRUE, group |-> SubSeq(s, q, dy.last)]
      ELSE [ok |-> FALSE]

\* \s*([A-Za-z]+\s*\d{1,2}\s*,?\s*\d{4}) at p, the place after the label
DateGroup(s, p) ==
  IF p > 0 THEN DateGroupFrom(s, p + WsRun(s, p)) ELSE [ok |-> FALSE]

\* a variant that takes the date after either label, Date or Expires
QuoteDateMatch_EitherLabel(s, word) ==
  LeftmostOf([i \in 1..Len(s) |->
                IF LabelEnd(s, i, <<"Q","u","o","t","e">>, <<"D","a","t","e">>) > 0
                THEN DateGroup(s, LabelEnd(s, i, <<"Q","u","o","t","e">>, <<"D","a","t","e">>))
                ELSE DateGroup(s, LabelEnd(s, i, <<"Q","u","o","t","e">>, <<"E","x","p","i","r","e","s">>))])

\* normalized.match(/Quote\s*<word>\s*([A-Za-z]+\s*\d{1,2}\s*,?\s*\d{4})/i),
\* word being Date or Expires
QuoteDateMatch(s, word) ==
  LeftmostOf([i \in 1..Len(s) |-> DateGroup(s, LabelEnd(s, i, <<"Q","u","o","t","e">>, word))])

\* (?=\s+stop1|\s+stop2|...) at position e
Lookahead(s, e, stops) ==
  /\ WsRun(s, e) >= 1
  /\ \E w \in stops : LitAtI(s, e + WsRun(s, e), w)

\* where ([cls]+?)(?=\s+stop...) ends when the group starts at g: the
\* shortest run of cls after which a stop follows; 0 when there is none
LazyEnd(s, g, cls, stops) ==
  LET es == {e \in g..(g + RunLen(s, g, cls) - 1) : Lookahead(s, e + 1, stops)}
  IN  IF es = {} THEN 0 ELSE CHOOSE e \in es : \A f \in es : e <= f

\* \s+([cls]+?)(?=\s+stop...) at p, the place after the label: the \s+ takes
\* as much white space as leaves a match
LazyGroup(s, p, cls, stops) ==
  LET ks == {k \in 1..WsRun(s, p) : LazyEnd(s, p + k, cls, stops) > 0}
  IN  IF p = 0 \/ ks = {} THEN [ok |-> FALSE]
      ELSE LET k == CHOOSE x \in ks : \A y \in ks : y <= x
           IN  [ok |-> TRUE,
                group |-> SubSeq(s, p + k, LazyEnd(s, p + k, cls, stops))]

\* [A-Za-z0-9\s]
NameChars == Letters \cup DigitChars \cup WhiteSpace

\* normalized.match(/Customer\s*Name\s+([A-Za-z0-9\s]+?)(?=\s+Quote|\s+Partner|\s+SOFTWARE)/i)
CustomerNameMatch(s) ==
  LeftmostOf([i \in 1..Len(s) |->
                LazyGroup(s, LabelEnd(s, i, <<"C","u","s","t","o","m","e","r">>, <<"N","a","m","e">>), NameChars,
                          {<<"Q","u","o","t","e">>, <<"P","a","r","t","n","e","r">>, <<"S","O","F","T","W","A","R","E">>})])

\* normalized.match(/Company\s+([A-Za-z0-9\s]+?)(?=\s+Quote|\s+SOFTWARE)/i)
CompanyMatch(s) ==
  LeftmostOf([i \in 1..Len(s) |->
                LazyGroup(s, IF LitAtI(s, i, <<"C","o","m","p","a","n","y">>) THEN i + 7 ELSE 0,
                          NameChars, {<<"Q","u","o","t","e">>, <<"S","O","F","T","W","A","R","E">>})])

\* normalized.match(/Partner\s*Name\s+([A-Za-z0-9\s]+?)(?=\s+SOFTWARE|\s+COMMODITY)/i)
PartnerMatch(s) ==
  LeftmostOf([i \in 1..Len(s) |->
                LazyGroup(s, LabelEnd(s, i, <<"P","a","r","t","n","e","r">>, <<"N","a","m","e">>), NameChars,
                          {<<"S","O","F","T","W","A","R","E">>, <<"C","O","M","M","O","D","I","T","Y">>})])

\* normalized.match(/Prepared\s*By\s+([A-Za-z\s]+?)(?=\s+Email|\s+Quote)/i)
PreparedByMatch(s) ==
  LeftmostOf([i \in 1..Len(s) |->
                LazyGroup(s, LabelEnd(s, i, <<"P","r","e","p","a","r","e","d">>, <<"B","y">>),
                          Letters \cup WhiteSpace, {<<"E","m","a","i","l">>, <<"Q","u","o","t","e">>})])

\* [a-zA-Z0-9._%+-]
LocalChars == Letters \cup DigitChars \cup {".", "_", "%", "+", "-"}

\* [a-zA-Z0-9.-]
DomainChars == Letters \cup DigitChars \cup {".", "-"}

\* @[a-zA-Z0-9.-]+\.[a-zA-Z]{2,} at position a, for an address that starts at
\* i: the domain takes all it can that leaves a point and two letters
EmailFrom(s, i, a) ==
  LET qs == {q \in (a + 2)..(a + RunLen(s, a + 1, DomainChars)) :
               s[q] = "." /\ RunLen(s, q + 1, Letters) >= 2}
  IN  IF a > Len(s) \/ s[a] # "@" \/ qs = {} THEN [ok |-> FALSE]
      ELSE LET q == CHOOSE x \in qs : \A y \in qs : y <= x
           IN  [ok |-> TRUE, group |-> SubSeq(s, i, q + RunLen(s, q + 1, Letters))]

EmailAt(s, i) ==
  IF s[i] \in LocalChars THEN EmailFrom(s, i, i + RunLen(s, i, LocalChars))
  ELSE [ok |-> FALSE]

\* normalized.match(/([a-zA-Z0-9._%+-]+@[a-zA-Z0-9.-]+\.[a-zA-Z]{2,})/i)
EmailMatch(s) == LeftmostOf([i \in 1..Len(s) |-> EmailAt(s, i)])

\* match ? match[1] : ''
GroupOr(match) == IF match.ok THEN match.group ELSE <<>>

DateOr(match) == IF match.ok THEN parseDate(match.group) ELSE <<>>

TrimmedOr(match) == IF match.ok THEN Trim(match.group) ELSE <<>>

\* let customerMatch = ...; if (!customerMatch) customerMatch = ...
CustomerMatch(s, first) == IF first.ok THEN first ELSE CompanyMatch(s)

HeaderOf(normalized) ==
  [quoteNumber |-> GroupOr(QuoteNumberMatch(normalized)),
   quoteDate   |-> DateOr(QuoteDateMatch(normalized, <<"D","a","t","e">>)),
   expires     |-> DateOr(QuoteDateMatch(normalized, <<"E","x","p","i","r","e","s">>)),
   customer    |-> TrimmedOr(CustomerMatch(normalized, CustomerNameMatch(normalized))),
   partner     |-> TrimmedOr(PartnerMatch(normalized)),
   preparedBy  |-> TrimmedOr(PreparedByMatch(normalized)),
   email       |-> GroupOr(EmailMatch(normalized))]

extractHeader(t) == HeaderOf(normalizePdfText(t))

\* V(\d+)\s*Configuration at position i
ConfigAt(s, i) ==
  LET n == RunLen(s, i + 1, DigitChars)
  IN  IF /\ ToUpper(s[i]) = "V"
         /\ n >= 1
         /\ LitAtI(s, i + 1 + n + WsRun(s, i + 1 + n), <<"C","o","n","f","i","g","u","r","a","t","i","o","n">>)
      THEN [ok |-> TRUE, group |-> SubSeq(s, i + 1, i + n)]
      ELSE [ok |-> FALSE]

\* normalized.match(/V(\d+)\s*Configuration/i)
ConfigMatch(s) == LeftmostOf([i \in 1..Len(s) |-> ConfigAt(s, i)])

BaseCodeOr(match) ==
  IF match.ok THEN <<"v">> \o match.group ELSE <<"v","5","0","0","0">>

extractBaseProductCode(t) == BaseCodeOr(ConfigMatch(normalizePdfText(t)))

(***************************************************************************)
(* services/dataTransformer.js                                             *)
(***************************************************************************)
\* a variant that takes the discount relative to the discounted price
calculateDiscountPercentage_OfDiscounted(listPrice, discountPrice) ==
  IF discountPrice.n = 0 THEN Int2Num(0)
  ELSE NumMul(NumDiv(NumSub(listPrice, discountPrice), discountPrice), Int2Num(100))

calculateDiscountPercentage(listPrice, discountPrice) ==
  IF listPrice.n = 0 THEN Int2Num(0)
  ELSE NumMul(NumDiv(NumSub(listPrice, discountPrice), listPrice), Int2Num(100))

formatPrice(num) ==
  IF num = Null \/ num = EmptyStr THEN <<>> ELSE ToFixed2(num)

createRow(header, item, opportunityId, baseProductCode, parentProductCode) ==
  LET discountPercentage ==
        calculateDiscountPercentage(item.listPrice, item.discountPrice)
  IN  [quoteDate          |-> header.quoteDate,
       opportunityId      |-> opportunityId,
       customerName       |-> header.customer,
       partnerName        |-> header.partner,
       preparedBy         |-> header.preparedBy,
       email              |-> header.email,
       quoteNumber        |-> header.quoteNumber,
       baseProductCode    |-> baseProductCode,
       baseDescription    |-> BASE_DESCRIPTION,
       productCode        |-> item.partNo,
       parentProductCode  |-> IF parentProductCode = Null THEN <<>>
                              ELSE parentProductCode,
       listPrice          |-> formatPrice(item.listPrice),
       discountPercentage |-> formatPrice(discountPercentage),
       discountPrice      |-> formatPrice(item.discountPrice),
       optionQty          |-> item.qty,
       month              |-> IF Truthy(item.months) THEN item.months
                              ELSE EmptyStr,
       extendedPrice      |-> formatPrice(item.extendedPrice),
       optionDescription  |-> item.description,
       quoteExpires       |-> header.expires,
       status             |-> DEFAULT_STATUS]

\* a variant that builds a child as a standard row of the parent item and
\* overrides the code, the parent code, the unit price and the description
createVduraCareChildRow_FromParentRow(header, parentItem, opportunityId, baseProductCode, childCode, childDescription, childPrice, parentProductCode) ==
  [createRow(header, parentItem, opportunityId, baseProductCode, parentProductCode)
     EXCEPT !.productCode = childCode,
            !.discountPrice = formatPrice(childPrice),
            !.optionDescription = childDescription]

\* a variant that leaves the child without the code of its parent
createVduraCareChildRow_NoParent(header, parentItem, opportunityId, baseProductCode, childCode, childDescription, childPrice, parentProductCode) ==
  [createVduraCareChildRow_FromParentRow(
     header, parentItem, opportunityId, baseProductCode, childCode,
     childDescription, childPrice, parentProductCode)
     EXCEPT !.parentProductCode = <<>>]

\* a variant that fills in the quote number and the dates of the parent row
\* only
createVduraCareChildRow_NoQuote(header, parentItem, opportunityId, baseProductCode, childCode, childDescription, childPrice, parentProductCode) ==
  [createVduraCareChildRow_FromParentRow(
     header, parentItem, opportunityId, baseProductCode, childCode,
     childDescription, childPrice, parentProductCode)
     EXCEPT !.quoteNumber = <<>>, !.quoteDate = <<>>, !.quoteExpires = <<>>]

createVduraCareChildRow(header, parentItem, opportunityId, baseProductCode, childCode, childDescription, childPrice, parentProductCode) ==
  LET qty == parentItem.qty
      months == IF Truthy(parentItem.months) THEN parentItem.months
                ELSE Int2Num(1)
      extendedPrice == NumMul(NumMul(childPrice, qty), months)
  IN  [quoteDate          |-> header.quoteDate,
       opportunityId      |-> opportunityId,
       customerName       |-> header.customer,
       partnerName        |-> header.partner,
       preparedBy         |-> header.preparedBy,
       email              |-> header.email,
       quoteNumber        |-> header.quoteNumber,
       baseProductCode    |-> baseProductCode,
       baseDescription    |-> BASE_DESCRIPTION,
       productCode        |-> childCode,
       parentProductCode  |-> parentProductCode,
       listPrice          |-> formatPrice(childPrice),
       discountPercentage |-> formatPrice(Int2Num(0)),
       discountPrice      |-> formatPrice(childPrice),
       optionQty          |-> qty,
       month              |-> months,
       extendedPrice      |-> formatPrice(extendedPrice),
       optionDescription  |-> childDescription,
       quoteExpires       |-> header.expires,
       status             |-> DEFAULT_STATUS]

\* a variant that never lets the software price fall below zero
SoftwarePrice_Clamped(parentDiscountPrice, supportPrice) ==
  IF NumLeq(parentDiscountPrice, supportPrice) THEN Int2Num(0)
  ELSE NumSub(parentDiscountPrice, supportPrice)

\* const softwarePrice = parentDiscountPrice - supportPrice
SoftwarePrice(parentDiscountPrice, supportPrice) ==
  NumSub(parentDiscountPrice, supportPrice)

\* the rows the loop body pushes for one item; threw: the TypeError of reading
\* .fixedPrice of childDefs.support when childDefs is truthy and has no support
RowsOfItem(header, item, opportunityId, baseProductCode) ==
  LET vduraCareMatch == VduraCareMatch(item.partNo)
      parent == createRow(header, item, opportunityId, baseProductCode, Null)
  IN  IF vduraCareMatch.matched
      THEN LET childDefs == ChildDefs(vduraCareMatch.tier)
           IN  IF childDefs.kind = "entry"
               THEN LET parentDiscountPrice == item.discountPrice
                        supportPrice == childDefs.defs.support.fixedPrice
                        softwarePrice == SoftwarePrice(parentDiscountPrice, supportPrice)
                    IN  [threw |-> FALSE,
                         rows |-> << parent,
                                     createVduraCareChildRow(
                                       header, item, opportunityId, baseProductCode,
                                       childDefs.defs.software.code,
                                       childDefs.defs.software.description,
                                       softwarePrice, item.partNo),
                                     createVduraCareChildRow(
                                       header, item, opportunityId, baseProductCode,
                                       childDefs.defs.support.code,
                                       childDefs.defs.support.description,
                                       supportPrice, item.partNo) >>]
               ELSE IF childDefs.kind = "inherited"
               THEN [threw |-> TRUE, rows |-> <<parent>>]
               ELSE [threw |-> FALSE, rows |-> <<parent>>]
      ELSE [threw |-> FALSE, rows |-> <<parent>>]

\* a variant of the loop that puts the rows of each item in front (unshift)
RECURSIVE TransformLoop_Unshift(_, _, _, _, _, _)
TransformLoop_Unshift(header, items, opportunityId, baseProductCode, i, acc) ==
  IF i > Len(items) THEN [threw |-> FALSE, rows |-> acc]
  ELSE LET r == RowsOfItem(header, items[i], opportunityId, baseProductCode)
       IN  IF r.threw THEN [threw |-> TRUE, rows |-> <<>>]
           ELSE TransformLoop_Unshift(header, items, opportunityId, baseProductCode,
                                      i + 1, r.rows \o acc)

\* the for loop of transformData from item i on, acc the rows pushed so far;
\* an exception ends the call with no rows returned
RECURSIVE TransformLoop(_, _, _, _, _, _)
TransformLoop(header, items, opportunityId, baseProductCode, i, acc) ==
  IF i > Len(items) THEN [threw |-> FALSE, rows |-> acc]
  ELSE LET r == RowsOfItem(header, items[i], opportunityId, baseProductCode)
       IN  IF r.threw THEN [threw |-> TRUE, rows |-> <<>>]
           ELSE TransformLoop(header, items, opportunityId, baseProductCode,
                              i + 1, acc \o r.rows)

transformData(header, items, opportunityId, baseProductCode) ==
  TransformLoop(header, items, opportunityId, baseProductCode, 1, <<>>)

(***************************************************************************)
(* services/csvGenerator.js                                                *)
(*                                                                         *)
(* A value handed to escapeCSVValue is null, undefined, a number or a      *)
(* string [str |-> s].                                                     *)
(***************************************************************************)
CSV_HEADERS ==
  << <<"Q","u","o","t","e"," ","D","a","t","e">>, <<"O","p","p","o","r","t","u","n","i","t","y"," ","I","D">>, <<"C","u","s","t","o","m","e","r"," ","N","a","m","e">>, <<"P","a","r","t","n","e","r"," ","N","a","m","e">>,
     <<"P","r","e","p","a","r","e","d"," ","B","y">>, <<"E","m","a","i","l">>, <<"Q","u","o","t","e"," ","N","u","m","b","e","r">>, <<"B","a","s","e"," ","P","r","o","d","u","c","t"," ","C","o","d","e">>,
     <<"B","a","s","e"," ","D","e","s","c","r","i","p","t","i","o","n">>, <<"P","r","o","d","u","c","t"," ","C","o","d","e">>, <<"P","a","r","e","n","t"," ","P","r","o","d","u","c","t"," ","C","o","d","e">>,
     <<"L","i","s","t"," ","P","r","i","c","e">>, <<"D","i","s","c","o","u","n","t"," ","P","e","r","c","e","n","t","a","g","e">>, <<"D","i","s","c","o","u","n","t"," ","P","r","i","c","e">>, <<"O","p","t","i","o","n"," ","Q","T","Y">>,
     <<"M","o","n","t","h">>, <<"E","x","t","e","n","d","e","d"," ","P","r","i","c","e">>, <<"O","p","t","i","o","n"," ","D","e","s","c","r","i","p","t","i","o","n">>, <<"Q","u","o","t","e"," ","E","x","p","i","r","e","s">>,
     <<"S","t","a","t","u","s">> >>

Undefined == [undefined |-> TRUE]

Str(s) == [str |-> s]

\* the digits after the point of n/d, n < d, as Number.prototype.toString
\* prints them for a number with a short decimal expansion (at most left digits)
RECURSIVE FractionDigits(_, _, _)
FractionDigits(n, d, left) ==
  IF n = 0 \/ left = 0 THEN <<>>
  ELSE <<Digits[((10 * n) \div d) + 1]>> \o FractionDigits((10 * n) % d, d, left - 1)

\* String(value) of a number or a string
String(value) ==
  IF IsNum(value)
  THEN (IF value.n < 0 THEN <<"-">> ELSE <<>>)
         \o NatStr(Abs(value.n) \div value.d)
         \o (IF value.d = 1 THEN <<>>
             ELSE <<".">> \o FractionDigits(Abs(value.n) % value.d, value.d, 16))
  ELSE value.str

\* stringValue.replace(/"/g, '""')
DoubleQuotes(s) ==
  ReplaceAll(s, [j \in 1..Len(s) |-> IF s[j] = "\"" THEN 1 ELSE 0],
             [j \in 1..Len(s) |-> <<"\"", "\"">>])

\* stringValue.includes(c)
Includes(s, c) == \E k \in 1..Len(s) : s[k] = c

\* a variant that leaves the quotes inside a wrapped value as they are
EscapeString_QuotesKept(stringValue) ==
  IF Includes(stringValue, ",") \/ Includes(stringValue, "\"")
       \/ Includes(stringValue, "\n")
  THEN <<"\"">> \o stringValue \o <<"\"">>
  ELSE stringValue

\* the escaping of the string form of a value
EscapeString(stringValue) ==
  IF Includes(stringValue, ",") \/ Includes(stringValue, "\"")
       \/ Includes(stringValue, "\n")
  THEN <<"\"">> \o DoubleQuotes(stringValue) \o <<"\"">>
  ELSE stringValue

escapeCSVValue(value) ==
  IF value = Null \/ value = Undefined THEN <<>> ELSE EscapeString(String(value))

\* Array.prototype.join
RECURSIVE Join(_, _)
Join(parts, sep) ==
  IF parts = <<>> THEN <<>>
  ELSE IF Len(parts) = 1 THEN parts[1]
  ELSE parts[1] \o sep \o Join(Drop(parts, 2), sep)

\* the values array of rowToCSVLine: the twenty fields of the row, in the
\* order of the columns
RowValues(row) ==
  << Str(row.quoteDate), Str(row.opportunityId), Str(row.customerName),
     Str(row.partnerName), Str(row.preparedBy), Str(row.email),
     Str(row.quoteNumber), Str(row.baseProductCode), Str(row.baseDescription),
     Str(row.productCode), Str(row.parentProductCode), Str(row.listPrice),
     Str(row.discountPercentage), Str(row.discountPrice), row.optionQty,
     row.month, Str(row.extendedPrice), Str(row.optionDescription),
     Str(row.quoteExpires), Str(row.status) >>

\* a variant that joins the string forms of the values as they are
rowToCSVLine_Unescaped(row) ==
  Join([k \in 1..20 |-> IF RowValues(row)[k] \in {Null, Undefined} THEN <<>>
                         ELSE String(RowValues(row)[k])], <<",">>)

rowToCSVLine(row) ==
  Join([k \in 1..20 |-> escapeCSVValue(RowValues(row)[k])], <<",">>)

generateCSV(csvRows) ==
  Join(<<Join(CSV_HEADERS, <<",">>)>>
         \o [k \in 1..Len(csvRows) |-> rowToCSVLine(csvRows[k])],
       <<"\n">>)

\* new Date().toISOString().replace(/[:.]/g, '-') for the time now
Timestamp(now) == [k \in 1..Len(now) |-> IF now[k] \in {":", "."} THEN "-" ELSE now[k]]

generateFilename(quoteNumber, now) ==
  <<"Q","u","o","t","e","_","N","u","m","b","e","r","_">> \o quoteNumber \o <<"_","B","O","M","_">> \o Timestamp(now) \o <<".","c","s","v">>

(***************************************************************************)
(* App.jsx: handleConvert after the text of the PDF has arrived.           *)
(***************************************************************************)
NoItemsMessage == <<"N","o"," ","l","i","n","e"," ","i","t","e","m","s"," ","f","o","u","n","d"," ","i","n"," ","P","D","F","."," ","P","l","e","a","s","e"," ","c","h","e","c","k"," ","t","h","e"," ","P","D","F"," ","f","o","r","m","a","t",".">>

\* the message of the TypeError of reading .fixedPrice of undefined
TypeErrorMessage == <<"C","a","n","n","o","t"," ","r","e","a","d"," ","p","r","o","p","e","r","t","i","e","s"," ","o","f"," ","u","n","d","e","f","i","n","e","d"," ","(","r","e","a","d","i","n","g"," ","'","f","i","x","e","d","P","r","i","c","e","'",")">>

\* the catch block: setStatus('error'), setMessage(`Error: ${error.message}`)
Caught(errorMessage, called) ==
  [status |-> "error", message |-> <<"E","r","r","o","r",":"," ">> \o errorMessage,
   invoked |-> called, download |-> Null]

\* steps 4 and 5 and the success status, for the rows transformData returned
Downloaded(called, csvContent, filename, count) ==
  [status |-> "success",
   message |-> <<"S","u","c","c","e","s","s","f","u","l","l","y"," ","c","o","n","v","e","r","t","e","d","!"," ","D","o","w","n","l","o","a","d","e","d"," ">> \o filename \o <<" ","w","i","t","h"," ">>
                 \o NatStr(count) \o <<" ","r","o","w","s",".">>,
   invoked |-> called \o <<"generateCSV", "generateFilename", "downloadCSV">>,
   download |-> [content |-> csvContent, filename |-> filename]]

\* header.quoteNumber || 'unknown'
QuoteNumberOr(header) ==
  IF header.quoteNumber = <<>> THEN <<"u","n","k","n","o","w","n">> ELSE header.quoteNumber

\* what follows the call of transformData, r being its outcome
AfterTransform(header, r, called, now) ==
  IF r.threw THEN Caught(TypeErrorMessage, called) @@ [rows |-> <<>>]
  ELSE Downloaded(called, generateCSV(r.rows),
                  generateFilename(QuoteNumberOr(header), now), Len(r.rows))
         @@ [rows |-> r.rows]

\* a variant without the check of lines 99-101: an empty list goes on to step 3
AfterExtract_Unchecked(header, items, opportunityId, baseProductCode, now) ==
  AfterTransform(header,
                 transformData(header, items, opportunityId, baseProductCode),
                 <<"extractHeader", "extractLineItems",
                   "extractBaseProductCode", "transformData">>, now)
    @@ [header |-> header, items |-> items, base |-> baseProductCode]

\* what follows the three extractions: the throw for an empty list, or step 3 on
AfterExtract(header, items, opportunityId, baseProductCode, now) ==
  IF Len(items) = 0
  THEN Caught(NoItemsMessage,
              <<"extractHeader", "extractLineItems", "extractBaseProductCode">>)
         @@ [rows |-> <<>>, header |-> header, items |-> items,
             base |-> baseProductCode]
  ELSE AfterTransform(header,
                      transformData(header, items, opportunityId, baseProductCode),
                      <<"extractHeader", "extractLineItems",
                        "extractBaseProductCode", "transformData">>, now)
         @@ [header |-> header, items |-> items, base |-> baseProductCode]

(***************************************************************************)
(* Inputs.                                                                 *)
(***************************************************************************)
\* the longest list of line items a caller hands to transformData
MaxItems == 2

Cents(c) == Frac(c, 100)

PartHP == <<"V","D","P","-","V","D","U","R","A","C","a","r","e","-","1","0","-","H","P">>

PartC == <<"V","D","P","-","V","D","U","R","A","C","a","r","e","-","1","0","-","C">>

\* a care code whose tier is in no catalog
PartX == <<"V","D","P","-","V","D","U","R","A","C","a","r","e","-","1","0","-","X">>

\* a care code whose tier names a member of Object.prototype
PartCtor == <<"V","D","P","-","V","D","U","R","A","C","a","r","e","-","1","0","-","c","o","n","s","t","r","u","c","t","o","r">>

PartSvc == <<"S","V","C","-","R","1">>

PartVch == <<"V","C","H","-","J","7","8">>

Desc == <<"D","e","s","c">>

PartNos == {PartHP, PartC, PartX, PartCtor, PartSvc, PartVch}

\* the numbers of a quote line: <<qty, months, listPrice, discountPrice>>,
\* prices in cents; the extended price is the one a consistent quote prints
LineChoices ==
  { <<1, Null, 0, 20>>, <<2, Int2Num(12), 50000, 9000>>,
    <<1, Int2Num(0), 15180, 7590>>, <<2, Null, 9000, 9000>>,
    <<3, Int2Num(12), 300, 100>> }

ItemChoices ==
  { [partNo |-> p, description |-> Desc, qty |-> Int2Num(ln[1]), months |-> ln[2],
     listPrice |-> Cents(ln[3]), discountPrice |-> Cents(ln[4]),
     extendedPrice |-> NumMul(NumMul(Cents(ln[4]), Int2Num(ln[1])),
                              IF ln[2] = Null THEN Int2Num(1) ELSE ln[2])] :
      p \in PartNos, ln \in LineChoices }

EmptyHeader ==
  [quoteNumber |-> <<>>, quoteDate |-> <<>>, expires |-> <<>>, customer |-> <<>>,
   partner |-> <<>>, preparedBy |-> <<>>, email |-> <<>>]

SampleHeader ==
  [quoteNumber |-> <<"1","0","1","7","8","-","1","2","3","4","5">>,
   quoteDate   |-> <<"0","1","/","3","0","/","2","0","2","6">>,
   expires     |-> <<"0","2","/","2","8","/","2","0","2","6">>,
   customer    |-> <<"A","c","m","e">>,
   partner     |-> <<>>,
   preparedBy  |-> <<"J","a","n","e"," ","D","o","e">>,
   email       |-> <<"j","a","n","e","@","v","d","u","r","a",".","c","o","m">>]

OpportunityIds == { <<"0","0","6","A","B","C","D","E","F","G","H","I","J","K","L","M","N","O">> }

\* the other arguments of a call of transformData: a header without fields and
\* the default base product code, or a full header and the code of a V7000
CallChoices ==
  { [header |-> EmptyHeader, opportunityId |-> id,
     baseProductCode |-> BASE_PRODUCT_CODE] : id \in OpportunityIds }
    \cup { [header |-> SampleHeader, opportunityId |-> id,
            baseProductCode |-> <<"v","7","0","0","0">>] : id \in OpportunityIds }

\* the status of the App before a conversion and after a reset: null, next to
\* the strings 'processing', 'success' and 'error'
NoStatus == "null"

\* the PDF the user picks
PdfFile == [type |-> "application/pdf"]

\* what the user types in the Opportunity ID field: too short, the eighteen
\* characters, too long
IdInputs ==
  { <<"0","0","6","A","B","C">>, <<"0","0","6","A","B","C","D","E","F","G","H","I","J","K","L","M","N","O">>, <<"0","0","6","A","B","C","D","E","F","G","H","I","J","K","L","M","N","O","P","Q">> }

ParsingMessage == <<"P","a","r","s","i","n","g"," ","P","D","F",".",".",".">>

\* the messages of the errors pdf.js rejects with
PdfErrors == { <<"I","n","v","a","l","i","d"," ","P","D","F"," ","s","t","r","u","c","t","u","r","e",".">> }

\* new Date().toISOString() at the time of the download
IsoTimes == { <<"2","0","2","6","-","0","1","-","3","0","T","1","0",":","1","5",":","0","0",".","0","0","0","Z">>, <<"2","0","2","6","-","0","1","-","3","0","T","1","0",":","1","5",":","0","1",".","2","5","0","Z">> }

\* the lines of the head of a quote, in the order they are printed; a head
\* holds any of them
HeaderLines ==
  << <<"P","r","e","p","a","r","e","d"," ","B","y"," ","J","a","n","e"," ","D","o","e">>, <<"E","m","a","i","l"," ","j","a","n","e","@","v","d","u","r","a",".","c","o","m">>,
     <<"Q","u","o","t","e"," ","N","u","m","b","e","r"," ","1","0","1","7","8","-","1","2","3","4","5">>, <<"Q","u","o","t","e"," ","D","a","t","e"," ","J","a","n","u","a","r","y"," ","3","0",","," ","2","0","2","6">>,
     <<"C","u","s","t","o","m","e","r"," ","N","a","m","e"," ","A","c","m","e"," ","C","o","r","p">>, <<"Q","u","o","t","e"," ","E","x","p","i","r","e","s"," ","F","e","b"," ","5",","," ","2","0","2","6">>,
     <<"P","a","r","t","n","e","r"," ","N","a","m","e"," ","B","e","t","a"," ","2">> >>

\* the head of a quote whose customer line has the label Company, split by
\* pdf.js
CompanyLine == <<"C","o","m"," ","p","a","n","y"," ","A","c","m","e"," ","C","o","r","p">>

\* what follows the head: the title of the table and the notes
HeaderTail == <<"S","O","F","T","W","A","R","E"," ","V","7","0","0","0"," ","C","o","n","f","i","g","u","r","a","t","i","o","n">>

\* the lines among which, joined by a space each
RECURSIVE LinesOf(_, _, _)
LinesOf(lines, which, k) ==
  IF k > Len(lines) THEN HeaderTail
  ELSE IF k \in which THEN lines[k] \o <<" ">> \o LinesOf(lines, which, k + 1)
  ELSE LinesOf(lines, which, k + 1)

HeaderTexts ==
  {LinesOf(HeaderLines, which, 1) : which \in SUBSET (1..7)}
    \cup {LinesOf([HeaderLines EXCEPT ![5] = CompanyLine], which \cup {5}, 1) :
            which \in SUBSET (1..7)}

\* a month name as printed: as the table has it, with a capital, in capitals
Capitalized(name) == <<ToUpper(name[1])>> \o Drop(name, 2)

InCapitals(name) == [k \in 1..Len(name) |-> ToUpper(name[k])]

MonthSpellings(m) ==
  UNION {{MonthNames[m][k], Capitalized(MonthNames[m][k]), InCapitals(MonthNames[m][k])} :
           k \in 1..Len(MonthNames[m])}

DayChoices == {<<"5">>, <<"3","0">>}

YearChoices == {<<"2","0","2","6">>}

\* <month-name> <day>, <year>
WrittenDate(name, day, year) == name \o <<" ">> \o day \o <<",", " ">> \o year

\* the head of a quote with the two dates written as date
DatedText(date) ==
  <<"Q","u","o","t","e"," ","N","u","m","b","e","r"," ","1","0","1","7","8"," ","Q","u","o","t","e"," ","D","a","t","e"," ">> \o date \o <<" ","Q","u","o","t","e"," ","E","x","p","i","r","e","s"," ">> \o date
    \o <<" ","S","O","F","T","W","A","R","E">>

DatedTexts ==
  {DatedText(WrittenDate(name, day, year)) :
     name \in UNION {MonthSpellings(m) : m \in 1..12},
     day \in DayChoices, year \in YearChoices}

\* dates as printed that are already MM/DD/YYYY, one with a digit group split
NumericDates == {<<"0","1","/","3","0","/","2","0","2","6">>, <<"1","/","5","/","2","0","2","6">>, <<"0"," ","1","/","3","0","/","2","0","2","6">>}

\* date strings that are neither MM/DD/YYYY nor led by a month name
UnparsableDates ==
  {<<"F","o","o"," ","3","0",","," ","2","0","2","6">>, <<"c","o","n","s","t","r","u","c","t","o","r"," ","1",","," ","2","0","2","6">>, <<"t","o","m","o","r","r","o","w">>, <<"3","0"," ","J","a","n","u","a","r","y"," ","2","0","2","6">>,
   <<"2","0","2","6","-","0","1","-","3","0">>, <<"Q","1"," ","2","0","2","6">>}

DateStrings ==
  {WrittenDate(name, day, year) :
     name \in UNION {MonthSpellings(m) : m \in 1..12},
     day \in DayChoices, year \in YearChoices}
    \cup NumericDates \cup UnparsableDates

\* prices with at most two decimals, in cents: 0, 0.05, 0.30, 90, 999.99, 1000,
\* 1234.50, 113400 and 1000000
PriceChoices ==
  {Cents(c) : c \in {0, 5, 30, 9000, 99999, 100000, 123450, 11340000, 100000000}}

\* the digits of an integer with a comma before every group of three
RECURSIVE GroupDigits(_)
GroupDigits(int) ==
  IF Len(int) <= 3 THEN int
  ELSE GroupDigits(SubSeq(int, 1, Len(int) - 3)) \o <<",">>
         \o SubSeq(int, Len(int) - 2, Len(int))

\* a price of two decimals with thousands separators
WithSeparators(s) ==
  GroupDigits(SubSeq(s, 1, Len(s) - 3)) \o SubSeq(s, Len(s) - 2, Len(s))

\* the ways a quote prints the price s
Printed(s) == {s, <<"$">> \o s, WithSeparators(s), <<"$">> \o WithSeparators(s)}

\* values of a field: strings without and with commas, quotes and newlines,
\* numbers, null and undefined
CsvStrings ==
  {<<>>, <<"A","c","m","e"," ","C","o","r","p">>, <<"A","c","m","e",","," ","I","n","c">>, <<"1","0","\""," ","d","i","s","k">>,
   <<"\"">>, <<"\"","\"">>, <<"t","w","o","\n","l","i","n","e","s">>,
   <<"a",",","\"","b","\"","\n","c">>, <<"\"","x","\"">>, <<"1","1","3",",","4","0","0",".","0","0">>,
   <<"c","a","r","r","i","a","g","e","\r">>}

CsvValues ==
  {Str(s) : s \in CsvStrings}
    \cup {Int2Num(0), Int2Num(21), Int2Num(1000), Frac(3, 2), Int2Num(-5)}
    \cup {Null, Undefined}

\* the most line items behind the rows handed to generateCSV
MaxCsvItems == 2

\* a header whose fields have a comma, a quote and a newline
AwkwardHeader ==
  [quoteNumber |-> <<"1","0","1","7","8">>,
   quoteDate   |-> <<"0","1","/","3","0","/","2","0","2","6">>,
   expires     |-> <<>>,
   customer    |-> <<"A","c","m","e",","," ","I","n","c">>,
   partner     |-> <<"1","0","\""," ","d","i","s","k","s">>,
   preparedBy  |-> <<"J","a","n","e","\n","D","o","e">>,
   email       |-> <<"j","a","n","e","@","v","d","u","r","a",".","c","o","m">>]

\* a care item of a catalog tier and a service item without months
CsvItems ==
  {item \in ItemChoices :
     /\ item.qty = Int2Num(2)
     /\ \/ item.partNo = PartHP /\ item.months = Int2Num(12)
        \/ item.partNo = PartSvc /\ item.months = Null}

\* the rows transformData makes of up to MaxCsvItems of these items
CsvTables ==
  {transformData(header, items, id, BASE_PRODUCT_CODE).rows :
     header \in {SampleHeader, AwkwardHeader},
     items \in UNION {[1..n -> CsvItems] : n \in 0..MaxCsvItems},
     id \in OpportunityIds}

\* the most rows a quote's table has
MaxRows == 2

\* a row of the table as printed: every field is the text of its cell, and
\* months is empty in the rows of the families that print no months
QuoteRow(code, qty, months, list, disc, ext) ==
  [code |-> code, desc |-> Desc, qty |-> qty, months |-> months,
   list |-> list, disc |-> disc, ext |-> ext]

CareRows ==
  { QuoteRow(PartHP, <<"1">>, <<"1","2">>, <<"$","1","0",".","0","0">>,
             <<"$","5",".","0","0">>, <<"$","6","0",".","0","0">>),
    QuoteRow(PartHP, <<"1">>, <<"1","2">>, <<"$","1","0",".","0","0">>,
             <<"$","6",".","0","0">>, <<"$","7","2",".","0","0">>),
    QuoteRow(PartHP, <<"1">>, <<"6">>, <<"$","2","0",".","0","0">>,
             <<"$","1","0",".","0","0">>, <<"$","6","0",".","0","0">>),
    QuoteRow(PartHP, <<"2","1">>, <<"6","0">>, <<"$","5","0","0",".","0","0">>,
             <<"$","9","0",".","0","0">>, <<"$","1","1","3",",","4","0","0",".","0","0">>),
    QuoteRow(PartC, <<"1">>, <<"1","2">>, <<"$","1",".","0","0">>,
             <<"$","0",".","5","0">>, <<"$","6",".","0","0">>) }

ServiceRows ==
  { QuoteRow(PartSvc, <<"1">>, <<>>, <<"$","5",".","0","0">>,
             <<"$","5",".","0","0">>, <<"$","5",".","0","0">>),
    QuoteRow(PartSvc, <<"1">>, <<>>, <<"$","5",".","0","0">>,
             <<"$","5",".","0","0">>, <<"$","5">>),
    QuoteRow(PartSvc, <<"2">>, <<>>, <<"$","5",".","0","0">>,
             <<"$","5",".","0","0">>, <<"$","1","0",".","0","0">>),
    QuoteRow(PartSvc, <<"1">>, <<>>, <<"$","7",".","0","0">>,
             <<"$","6",".","0","0">>, <<"$","6",".","0","0">>) }

HardwareRows ==
  { QuoteRow(PartVch, <<"1">>, <<>>, <<"$","1",",","0","0","0",".","0","0">>,
             <<"$","9","0","0",".","0","0">>, <<"$","9","0","0",".","0","0">>),
    QuoteRow(PartVch, <<"0","1">>, <<>>, <<"$","1",",","0","0","0",".","0","0">>,
             <<"$","9","0","0",".","0","0">>, <<"$","9","0","0",".","0","0">>),
    QuoteRow(PartVch, <<"2">>, <<>>, <<"$","1",",","0","0","0",".","0","0">>,
             <<"$","9","0","0",".","0","0">>, <<"$","1",",","8","0","0",".","0","0">>) }

\* a line above the table that names a product code and prints no numbers
NoteRow(code, desc) ==
  [code |-> code, desc |-> desc, qty |-> <<>>, months |-> <<>>,
   list |-> <<>>, disc |-> <<>>, ext |-> <<>>]

IsNote(r) == r.qty = <<>>

NoteChoices ==
  { NoteRow(<<"S","V","C","-","A">>, <<"s","e","e"," ","n","o","t","e">>),
    NoteRow(<<"V","D","P","-","V","D","U","R","A","C","a","r","e","-","2","0","-","H","P">>, <<"o","n"," ","r","e","q","u","e","s","t">>),
    NoteRow(<<"V","C","H","-","A","1">>, <<"n","o","t"," ","q","u","o","t","e","d">>) }

RowChoices == CareRows \cup ServiceRows \cup HardwareRows

\* the text pdf.js gives for a row: its cells, one space between them
RowText(r) ==
  IF r.qty = <<>> THEN r.code \o <<" ">> \o r.desc
  ELSE r.code \o <<" ">> \o r.desc \o <<" ">> \o r.qty \o <<" ">>
         \o (IF r.months = <<>> THEN <<>> ELSE r.months \o <<" ">>)
         \o r.list \o <<" ">> \o r.disc \o <<" ">> \o r.ext

\* quantities of one to four digits, and a row that quotes none
QtyChoices == {0, 1, 12, 100, 1000}

\* terms of one to three digits
MonthChoices == {6, 12, 120}

\* the list price and the discounted price of a unit, in dollars
UnitPrices == {<<20, 10>>, <<1000, 5>>}

\* a row by the numbers it prints; months is 0 in the families that print
\* no months
NumberedRows ==
  { [code |-> PartHP, qty |-> q, months |-> m, list |-> p[1], disc |-> p[2]] :
      q \in QtyChoices, m \in MonthChoices, p \in UnitPrices }
    \cup { [code |-> c, qty |-> q, months |-> 0, list |-> p[1], disc |-> p[2]] :
             c \in {PartSvc, PartVch}, q \in QtyChoices, p \in UnitPrices }

\* the extended price of the row: the discounted price of every unit, in
\* every month of the term
ExtendedOf(r) == r.disc * r.qty * (IF r.months = 0 THEN 1 ELSE r.months)

\* an amount of whole dollars as the quote prints it
Dollars(k) == <<"$">> \o WithSeparators(NatStr(k) \o <<".","0","0">>)

\* the cells of the row
CellsOf(r) ==
  QuoteRow(r.code, NatStr(r.qty),
           IF r.months = 0 THEN <<>> ELSE NatStr(r.months),
           Dollars(r.list), Dollars(r.disc), Dollars(ExtendedOf(r)))

\* the most segments of a product code
MaxSegments == 4

\* segments of product codes: of letters and of digits, of one character
\* and of more
Segments == {<<"V","D","P">>, <<"1","0">>, <<"H","P">>, <<"C">>}

\* the codes of two segments and more
SegmentedCodes == UNION {[1..n -> Segments] : n \in 2..MaxSegments}

\* the code as pdf.js gives it when every hyphen is a text run of its own
SplitCode(segments) == Join(segments, <<" ","-"," ">>)

\* the files the user picks or drops: the PDF whose text is text, and a file
\* of another type
FileChoices == {PdfFile, [type |-> "text/plain"]}

\* the quotes in the PDFs the user converts: no row, one row, or a line
\* without numbers
PdfDocs == {<<>>} \cup {<<r>> : r \in RowChoices \cup NoteChoices}

\* the most clicks on Convert in one session
MaxConversions == 2

(***************************************************************************)
(* The state machine: the text of a quote is put together row by row and   *)
(* handed to extractLineItems, or a caller builds a list of line items;    *)
(* the line items are handed to transformData.  With the text of a quote   *)
(* in the PDF the user picks a file, types the Opportunity ID, converts    *)
(* and resets, in any order the page allows; a run of handleConvert that   *)
(* awaits the text of the PDF settles at any later time.  The functions of *)
(* the services are also called by themselves, each with arguments of its  *)
(* own.                                                                    *)
(***************************************************************************)
Init ==
  /\ doc = <<>>
  /\ text = <<>>
  /\ lineItems = <<>>
  /\ rows = <<>>
  /\ call = Null
  /\ app = [file |-> Null, opportunityId |-> <<>>, status |-> NoStatus, message |-> <<>>]
  /\ invoked = <<>>
  /\ download = Null
  /\ conversions = <<>>
  /\ ret = Null
  /\ pc = "start"

\* the caller of transformData adds a line item to the list it will pass
SupplyItem ==
  /\ pc \in {"start", "supplying"}
  /\ Len(lineItems) < MaxItems
  /\ \E item \in ItemChoices : lineItems' = Append(lineItems, item)
  /\ pc' = "supplying"
  /\ UNCHANGED <<doc, text, rows, call, app, invoked, download, conversions, ret>>

\* the quote gets one more row, on a line of its own; one row when it starts
\* with a note
TypeRow ==
  /\ pc \in {"start", "typing"}
  /\ Len(doc) < MaxRows
  /\ IF doc # <<>> /\ IsNote(doc[1]) THEN Len(doc) = 1 ELSE TRUE
  /\ \E r \in RowChoices :
       /\ doc' = Append(doc, r)
       /\ text' = IF text = <<>> THEN RowText(r) ELSE text \o <<"\n">> \o RowText(r)
  /\ pc' = "typing"
  /\ UNCHANGED <<lineItems, rows, call, app, invoked, download, conversions, ret>>

\* the quote starts with a line that names a product code and prints no numbers
TypeNote ==
  /\ pc = "start"
  /\ \E r \in NoteChoices :
       /\ doc' = <<r>>
       /\ text' = RowText(r)
  /\ pc' = "typing"
  /\ UNCHANGED <<lineItems, rows, call, app, invoked, download, conversions, ret>>

\* one call of extractLineItems(text)
ExtractLineItems ==
  /\ pc \in {"start", "typing"}
  /\ lineItems' = extractLineItems(text)
  /\ pc' = "extracted"
  /\ UNCHANGED <<doc, text, rows, call, app, invoked, download, conversions, ret>>

\* one call of transformData(header, lineItems, opportunityId, baseProductCode)
TransformData ==
  /\ pc \in {"start", "supplying", "extracted"}
  /\ \E c \in CallChoices :
       LET r == transformData(c.header, lineItems, c.opportunityId, c.baseProductCode)
       IN  /\ call' = c
           /\ rows' = r.rows
           /\ pc' = IF r.threw THEN "threw" ELSE "transformed"
  /\ UNCHANGED <<doc, text, lineItems, app, invoked, download, conversions, ret>>

\* a variant that lets every file through
validateFile_AnyType(file) == TRUE

\* FileUploader.validateFile (the alert shows nothing of the state)
validateFile(file) == file.type = "application/pdf"

\* where pc is once the page is in use: the form was opened, Convert was
\* clicked, a conversion ended, Reset was clicked
AppPcs == {"form", "parsing", "converted", "reset"}

\* FileUploader.handleFileChange and handleDrop with a file; the PDF is the one
\* whose text is text: if (selectedFile && validateFile(selectedFile))
\* setFile(selectedFile)
SelectFile ==
  /\ pc \in {"start", "typing"} \cup AppPcs
  /\ doc \in PdfDocs
  /\ \E file \in FileChoices :
       app' = [app EXCEPT !.file = IF validateFile(file) THEN file ELSE @]
  /\ pc' = IF pc \in AppPcs THEN pc ELSE "form"
  /\ UNCHANGED <<doc, text, lineItems, rows, call, invoked, download, conversions, ret>>

\* OpportunityInput.handleChange: setOpportunityId(e.target.value.slice(0, 18))
ChangeId ==
  /\ pc \in AppPcs
  /\ \E value \in IdInputs :
       app' = [app EXCEPT !.opportunityId =
                 SubSeq(value, 1, IF Len(value) < 18 THEN Len(value) ELSE 18)]
  /\ UNCHANGED <<doc, text, lineItems, rows, call, invoked, download, conversions, ret, pc>>

\* file && opportunityId.length === 18
isFormValid == app.file # Null /\ Len(app.opportunityId) = 18

\* the Convert button: disabled={!isFormValid || status === 'processing'}
ConvertEnabled == isFormValid /\ app.status # "processing"

\* handleConvert up to its await: the click on Convert.  The run closes over
\* the file and the opportunityId of the render it was clicked in
HandleConvert ==
  /\ pc \in AppPcs
  /\ ConvertEnabled
  /\ Len(conversions) < MaxConversions
  /\ app' = [app EXCEPT !.status = "processing", !.message = ParsingMessage]
  /\ conversions' = Append(conversions,
                           [file |-> app.file, opportunityId |-> app.opportunityId,
                            state |-> "awaiting"])
  /\ invoked' = <<"extractTextFromPDF">>
  /\ pc' = "parsing"
  /\ UNCHANGED <<doc, text, lineItems, rows, call, download, ret>>

\* handleReset: the click on Reset, which is rendered when
\* (file || opportunityId || status); a run that awaits goes on
HandleReset ==
  /\ pc \in AppPcs
  /\ ~(app.file = Null /\ app.opportunityId = <<>> /\ app.status = NoStatus)
  /\ app' = [file |-> Null, opportunityId |-> <<>>, status |-> NoStatus, message |-> <<>>]
  /\ pc' = "reset"
  /\ UNCHANGED <<doc, text, lineItems, rows, call, invoked, download, conversions, ret>>

\* the runs of handleConvert that await extractTextFromPDF
Awaiting == {k \in 1..Len(conversions) : conversions[k].state = "awaiting"}

\* the state run k of handleConvert leaves when its try block ended as c says
Settle(c, k) ==
  /\ app' = [app EXCEPT !.status = c.status, !.message = c.message]
  /\ invoked' = <<"extractTextFromPDF">> \o c.invoked
  /\ download' = c.download
  /\ lineItems' = c.items
  /\ rows' = c.rows
  /\ call' = [header |-> c.header, opportunityId |-> conversions[k].opportunityId,
              baseProductCode |-> c.base]
  /\ conversions' = [conversions EXCEPT ![k].state = "settled"]

\* the try block of a run of handleConvert once step 2 has extracted header,
\* items and baseProductCode, at any time of the clock
Convert(header, items, baseProductCode) ==
  \E k \in Awaiting, now \in IsoTimes :
    Settle(AfterExtract(header, items, conversions[k].opportunityId,
                        baseProductCode, now), k)

\* step 2 of handleConvert: extractHeader(pdfText), extractLineItems(pdfText)
\* and extractBaseProductCode(pdfText), which normalize the same text each;
\* normalized is normalizePdfText(pdfText)
ExtractAndConvert(normalized) ==
  Convert(HeaderOf(normalized), ItemsOfFamilies(normalized, 1),
          BaseCodeOr(ConfigMatch(normalized)))

\* a run of handleConvert after its await, when extractTextFromPDF resolved
\* to text
ConvertText ==
  /\ Awaiting # {}
  /\ ExtractAndConvert(normalizePdfText(text))
  /\ pc' = "converted"
  /\ UNCHANGED <<doc, text, ret>>

\* a run of handleConvert after its await, when extractTextFromPDF rejected
ConvertFails ==
  /\ \E k \in Awaiting, error \in PdfErrors :
       /\ app' = [app EXCEPT !.status = "error",
                             !.message = Caught(error, <<>>).message]
       /\ conversions' = [conversions EXCEPT ![k].state = "settled"]
  /\ invoked' = <<"extractTextFromPDF">>
  /\ pc' = "converted"
  /\ UNCHANGED <<doc, text, lineItems, rows, call, download, ret>>

\* one call of extractHeader(t), for the head of a quote
ExtractHeader ==
  /\ pc = "start"
  /\ \E t \in HeaderTexts \cup DatedTexts :
       ret' = [fn |-> "extractHeader", arg |-> t, value |-> extractHeader(t)]
  /\ pc' = "applied"
  /\ UNCHANGED <<doc, text, lineItems, rows, call, app, invoked, download, conversions>>

\* one call of parseDate(dateStr)
ParseDate ==
  /\ pc = "start"
  /\ \E dateStr \in DateStrings :
       ret' = [fn |-> "parseDate", arg |-> dateStr, value |-> parseDate(dateStr)]
  /\ pc' = "applied"
  /\ UNCHANGED <<doc, text, lineItems, rows, call, app, invoked, download, conversions>>

\* one call of formatPrice(num)
FormatPrice ==
  /\ pc = "start"
  /\ \E num \in PriceChoices :
       ret' = [fn |-> "formatPrice", arg |-> num, value |-> formatPrice(num)]
  /\ pc' = "formatted"
  /\ UNCHANGED <<doc, text, lineItems, rows, call, app, invoked, download, conversions>>

\* one call of parseCurrency(str) with a formatted price as a quote prints it
ParseCurrency ==
  /\ pc = "formatted"
  /\ \E str \in Printed(ret.value) :
       ret' = [fn |-> "parseCurrency", arg |-> str, value |-> parseCurrency(str),
               num |-> ret.arg]
  /\ pc' = "applied"
  /\ UNCHANGED <<doc, text, lineItems, rows, call, app, invoked, download, conversions>>

\* one call of escapeCSVValue(value)
EscapeCSVValue ==
  /\ pc = "start"
  /\ \E value \in CsvValues :
       ret' = [fn |-> "escapeCSVValue", arg |-> value, value |-> escapeCSVValue(value)]
  /\ pc' = "applied"
  /\ UNCHANGED <<doc, text, lineItems, rows, call, app, invoked, download, conversions>>

\* one call of generateCSV(rows)
GenerateCSV ==
  /\ pc = "start"
  /\ \E csvRows \in CsvTables :
       ret' = [fn |-> "generateCSV", arg |-> csvRows, value |-> generateCSV(csvRows)]
  /\ pc' = "applied"
  /\ UNCHANGED <<doc, text, lineItems, rows, call, app, invoked, download, conversions>>

\* one call of normalizePdfText(text), with a product code split at its
\* hyphens
NormalizePdfText ==
  /\ pc = "start"
  /\ \E segments \in SegmentedCodes :
       ret' = [fn |-> "normalizePdfText", arg |-> SplitCode(segments),
               value |-> normalizePdfText(SplitCode(segments)),
               segments |-> segments]
  /\ pc' = "applied"
  /\ UNCHANGED <<doc, text, lineItems, rows, call, app, invoked, download, conversions>>

\* one call of extractLineItems(text), with the text of one row
ExtractRow ==
  /\ pc = "start"
  /\ \E r \in NumberedRows :
       ret' = [fn |-> "extractLineItems", arg |-> RowText(CellsOf(r)),
               value |-> extractLineItems(RowText(CellsOf(r))), row |-> r]
  /\ pc' = "applied"
  /\ UNCHANGED <<doc, text, lineItems, rows, call, app, invoked, download, conversions>>

Next ==
  \/ ExtractHeader \/ ParseDate \/ FormatPrice \/ ParseCurrency
  \/ EscapeCSVValue \/ GenerateCSV \/ NormalizePdfText \/ ExtractRow
  \/ TypeNote \/ TypeRow \/ ExtractLineItems \/ SupplyItem \/ TransformData
  \/ SelectFile \/ ChangeId \/ HandleConvert \/ HandleReset
  \/ ConvertText \/ ConvertFails

Spec == Init /\ [][Next]_vars

(***************************************************************************)
(* Vocabulary of the properties.                                           *)
(***************************************************************************)
\* the transformData call has ended, by returning or by throwing
Called == pc \in {"transformed", "threw"}

Returned == pc = "transformed"

IsCare(item) == VduraCareMatch(item.partNo).matched

TierOf(item) == VduraCareMatch(item.partNo).tier

HasCatalogTier(item) == IsCare(item) /\ TierOf(item) \in {TierHP, TierC}

\* the rows an item is to contribute
RowCount(item) == IF HasCatalogTier(item) THEN 3 ELSE 1

\* the place in the output of the first row of item i
RECURSIVE FirstRow(_)
FirstRow(i) == IF i = 1 THEN 1 ELSE FirstRow(i - 1) + RowCount(lineItems[i - 1])

TotalRows == FirstRow(Len(lineItems) + 1) - 1

CareItems == {i \in 1..Len(lineItems) : HasCatalogTier(lineItems[i])}

ParentRow(i) == rows[FirstRow(i)]

SoftwareRow(i) == rows[FirstRow(i) + 1]

SupportRow(i) == rows[FirstRow(i) + 2]

\* the number a formatted price reads as
Amount(s) == parseCurrency(s)

\* digits, a point and exactly two digits, after an optional minus sign
TwoDecimals(s) ==
  LET start == IF s # <<>> /\ s[1] = "-" THEN 2 ELSE 1
      n == RunLen(s, start, DigitChars)
  IN  /\ n >= 1
      /\ Len(s) = start + n + 2
      /\ s[start + n] = "."
      /\ s[start + n + 1] \in DigitChars
      /\ s[start + n + 2] \in DigitChars

CatalogOf(item) ==
  IF TierOf(item) = TierHP THEN VDURACARE_CHILDREN.HP ELSE VDURACARE_CHILDREN.C

\* item i contributed its parent row, its software child and its support child
ThreeRowsInOrder(i) ==
  /\ Len(rows) >= FirstRow(i) + 2
  /\ ParentRow(i).productCode = lineItems[i].partNo
  /\ ParentRow(i).parentProductCode = <<>>
  /\ SoftwareRow(i).productCode = CatalogOf(lineItems[i]).software.code
  /\ SoftwareRow(i).parentProductCode = lineItems[i].partNo
  /\ SupportRow(i).productCode = CatalogOf(lineItems[i]).support.code
  /\ SupportRow(i).parentProductCode = lineItems[i].partNo

(***************************************************************************)
(* C1: every line item passed to transformData whose partNo matches the    *)
(* care pattern with tier HP or C contributes exactly three consecutive    *)
(* output rows: parent, software child, support child.                     *)
(* C1_ThreeRowsPerCareItem states it of every call; it fails in the calls  *)
(* that throw (see C3), which return no rows at all.                       *)
(***************************************************************************)
C1_ThreeRowsPerCareItem ==
  Called => \A i \in CareItems :
              /\ Returned
              /\ Len(rows) = TotalRows
              /\ ThreeRowsInOrder(i)

\* what does hold: in every call that returns, each such item has its three rows
C1_ThreeRowsWhenReturned ==
  Returned => \A i \in CareItems : Len(rows) = TotalRows /\ ThreeRowsInOrder(i)

(***************************************************************************)
(* C2: for a list of non-care items only, transformData returns one row    *)
(* per item, the i-th row carrying the i-th item's partNo.                 *)
(***************************************************************************)
OnlyNonCare == \A i \in 1..Len(lineItems) : ~IsCare(lineItems[i])

C2_OneRowPerNonCareItem ==
  (Called /\ OnlyNonCare) =>
     /\ Returned
     /\ Len(rows) = Len(lineItems)
     /\ \A i \in 1..Len(lineItems) : rows[i].productCode = lineItems[i].partNo

\* two different non-care items were transformed
C2_Witness ==
  /\ Returned /\ OnlyNonCare
  /\ Len(lineItems) = 2
  /\ lineItems[1].partNo # lineItems[2].partNo

(***************************************************************************)
(* C3: a care item whose tier (any string of word characters) is not a     *)
(* key of the child catalog does not make transformData throw, and gets    *)
(* exactly one row, a standard row with parentProductCode "".              *)
(***************************************************************************)
UnknownTierItems ==
  {i \in 1..Len(lineItems) :
     IsCare(lineItems[i]) /\ TierOf(lineItems[i]) \notin {TierHP, TierC}}

C3_UnknownTierSingleRow ==
  Called => \A i \in UnknownTierItems :
              /\ Returned
              /\ Len(rows) = TotalRows
              /\ ParentRow(i).productCode = lineItems[i].partNo
              /\ ParentRow(i).parentProductCode = <<>>

(***************************************************************************)
(* C4: for a care item with tier HP or C, the support child's unit price   *)
(* is the tier's fixed price (3.00, 0.30) whatever the parent's prices     *)
(* are, the software child's unit price is the parent's discountPrice      *)
(* minus that fixed price, negative when the discountPrice is below it,    *)
(* and the two unit prices add up to the parent's discountPrice.           *)
(***************************************************************************)
FixedPriceText(item) ==
  IF TierOf(item) = TierHP THEN <<"3",".","0","0">> ELSE <<"0",".","3","0">>

FixedCents(item) == IF TierOf(item) = TierHP THEN 300 ELSE 30

\* an amount as a whole number of cents
InCents(x) == (x.n * 100) \div x.d

C4_ChildUnitPrices ==
  Returned => \A i \in CareItems :
     LET item == lineItems[i]
         soft == Amount(SoftwareRow(i).discountPrice)
         supp == Amount(SupportRow(i).discountPrice)
     IN  /\ SupportRow(i).discountPrice = FixedPriceText(item)
         /\ InCents(soft) = InCents(item.discountPrice) - FixedCents(item)
         /\ InCents(soft) + InCents(supp) = InCents(item.discountPrice)
         /\ (InCents(item.discountPrice) < FixedCents(item)) => soft.n < 0
         /\ TwoDecimals(SoftwareRow(i).discountPrice)

\* a care item priced below the fixed support price was transformed
C4_Witness ==
  /\ Returned
  /\ \E i \in CareItems :
       /\ InCents(lineItems[i].discountPrice) < FixedCents(lineItems[i])
       /\ SoftwareRow(i).discountPrice[1] = "-"

(***************************************************************************)
(* C5: every child row has the parent's qty; its month is the parent's     *)
(* months whenever that is not null, 0 included, and 1 only when it is     *)
(* null; its extendedPrice is childPrice * qty * month.                    *)
(***************************************************************************)
ChildRowsOf(i) == {SoftwareRow(i), SupportRow(i)}

C5_ChildQtyMonthExtended ==
  Returned => \A i \in CareItems : \A c \in ChildRowsOf(i) :
     /\ c.optionQty = lineItems[i].qty
     /\ c.month = IF lineItems[i].months # Null THEN lineItems[i].months
                  ELSE Int2Num(1)
     /\ Amount(c.extendedPrice)
          = NumMul(NumMul(Amount(c.discountPrice), c.optionQty), c.month)

\* what the code keeps of C5: a parent of 0 months gives its children month 1
C5_ChildQtyMonthExtendedButZeroMonths ==
  Returned => \A i \in CareItems : \A c \in ChildRowsOf(i) :
     /\ c.optionQty = lineItems[i].qty
     /\ c.month = IF Truthy(lineItems[i].months) THEN lineItems[i].months
                  ELSE Int2Num(1)
     /\ Amount(c.extendedPrice)
          = NumMul(NumMul(Amount(c.discountPrice), c.optionQty), c.month)

(***************************************************************************)
(* C6: every child row has listPrice equal to discountPrice and            *)
(* discountPercentage "0.00".                                              *)
(***************************************************************************)
C6_ChildNoDiscount ==
  Returned => \A i \in CareItems : \A c \in ChildRowsOf(i) :
     /\ c.listPrice = c.discountPrice
     /\ c.discountPercentage = <<"0",".","0","0">>

\* the children of a discounted parent were emitted
C6_Witness ==
  /\ Returned
  /\ \E i \in CareItems :
       /\ lineItems[i].listPrice # lineItems[i].discountPrice
       /\ ParentRow(i).discountPercentage # <<"0",".","0","0">>
       /\ SoftwareRow(i).parentProductCode = lineItems[i].partNo

(***************************************************************************)
(* C7: in every standard row (a non-care item's row, a care parent row)    *)
(* month is the item's months whenever that is not null, 0 included, and   *)
(* '' only when it is null; parentProductCode is ""; the four prices are   *)
(* strings with exactly two decimal digits.                                *)
(***************************************************************************)
C7_StandardRow ==
  Returned => \A i \in 1..Len(lineItems) :
     LET r == ParentRow(i)
         item == lineItems[i]
     IN  /\ r.month = IF item.months # Null THEN item.months ELSE EmptyStr
         /\ r.parentProductCode = <<>>
         /\ TwoDecimals(r.listPrice)
         /\ TwoDecimals(r.discountPrice)
         /\ TwoDecimals(r.extendedPrice)
         /\ TwoDecimals(r.discountPercentage)

\* the part of C7 the code keeps: everything but the month of an item of 0 months
C7_StandardRowButZeroMonths ==
  Returned => \A i \in 1..Len(lineItems) :
     LET r == ParentRow(i)
         item == lineItems[i]
     IN  /\ r.month = IF Truthy(item.months) THEN item.months ELSE EmptyStr
         /\ r.parentProductCode = <<>>
         /\ TwoDecimals(r.listPrice)
         /\ TwoDecimals(r.discountPrice)
         /\ TwoDecimals(r.extendedPrice)
         /\ TwoDecimals(r.discountPercentage)

(***************************************************************************)
(* C8: in every standard row discountPercentage lies in [0, 100] whenever  *)
(* listPrice >= discountPrice > 0, and is exactly 0 whenever listPrice is  *)
(* 0, whatever the discountPrice.                                          *)
(***************************************************************************)
C8_DiscountPercentageRange ==
  Returned => \A i \in 1..Len(lineItems) :
     LET item == lineItems[i]
         pct == Amount(ParentRow(i).discountPercentage)
     IN  /\ (item.discountPrice.n > 0 /\ NumLeq(item.discountPrice, item.listPrice))
              => (NumLeq(Int2Num(0), pct) /\ NumLeq(pct, Int2Num(100)))
         /\ (item.listPrice.n = 0)
              => ParentRow(i).discountPercentage = <<"0",".","0","0">>

\* a row with listPrice 0 and a positive discountPrice, and a discounted row
C8_Witness ==
  /\ Returned
  /\ \E i \in 1..Len(lineItems) :
       lineItems[i].listPrice.n = 0 /\ lineItems[i].discountPrice.n > 0
  /\ \E i \in 1..Len(lineItems) :
       /\ lineItems[i].discountPrice.n > 0
       /\ NumLeq(lineItems[i].discountPrice, lineItems[i].listPrice)
       /\ ParentRow(i).discountPercentage = <<"6","6",".","6","7">>

(***************************************************************************)
(* Vocabulary of the properties of extractLineItems.                       *)
(***************************************************************************)
\* extractLineItems has returned the line items of the text of a quote whose
\* lines are all rows of the table
Extracted == pc = "extracted" /\ \A k \in 1..Len(doc) : ~IsNote(doc[k])

\* the identity of a line item: (partNo, qty, extendedPrice)
ItemIdentity(item) == <<item.partNo, item.qty, item.extendedPrice>>

\* the identity of the line item a printed row stands for
RowIdentity(r) == <<r.code, Int2Num(DigitsValue(r.qty)), parseCurrency(r.ext)>>

\* the first row of the quote with the identity of row k
FirstWithIdentity(k) ==
  CHOOSE f \in 1..k :
    /\ RowIdentity(doc[f]) = RowIdentity(doc[k])
    /\ \A g \in 1..(f - 1) : RowIdentity(doc[g]) # RowIdentity(doc[k])

\* the line item a printed row stands for
RowItem(r) ==
  [partNo        |-> r.code,
   description   |-> r.desc,
   qty           |-> Int2Num(DigitsValue(r.qty)),
   months        |-> IF r.months = <<>> THEN Null ELSE Int2Num(DigitsValue(r.months)),
   listPrice     |-> parseCurrency(r.list),
   discountPrice |-> parseCurrency(r.disc),
   extendedPrice |-> parseCurrency(r.ext)]

Retained(r) == \E i \in 1..Len(lineItems) : ItemIdentity(lineItems[i]) = RowIdentity(r)

(***************************************************************************)
(* C9: the sequence extractLineItems returns never holds two items with    *)
(* the same (partNo, qty, extendedPrice); of the occurrences that share    *)
(* that identity the first one is the one kept.                            *)
(***************************************************************************)
C9_NoTwoItemsWithOneIdentity ==
  Extracted =>
    /\ \A i, j \in 1..Len(lineItems) :
         i # j => ItemIdentity(lineItems[i]) # ItemIdentity(lineItems[j])
    /\ \A k \in 1..Len(doc) :
         \E i \in 1..Len(lineItems) : lineItems[i] = RowItem(doc[FirstWithIdentity(k)])

(***************************************************************************)
(* C10: two occurrences that differ in a component of (partNo, qty,        *)
(* extendedPrice) are both retained, two care rows with the same code, qty *)
(* and months but different extended prices among them.                    *)
(***************************************************************************)
C10_DifferentIdentitiesBothRetained ==
  Extracted =>
    \A a, b \in 1..Len(doc) :
      RowIdentity(doc[a]) # RowIdentity(doc[b]) => Retained(doc[a]) /\ Retained(doc[b])

(***************************************************************************)
(* C11: the items extractLineItems returns are in the order of their first *)
(* appearance in the text, also when rows of different families are        *)
(* interleaved: a hardware or service row above a care row comes before it *)
(* in the output.                                                          *)
(***************************************************************************)
\* the rows of the quote that line item i stands for
Occurrences(i) == {k \in 1..Len(doc) : RowItem(doc[k]) = lineItems[i]}

C11_OrderOfFirstAppearance ==
  Extracted =>
    \A i, j \in 1..Len(lineItems) :
      i < j => \A b \in Occurrences(j) : \E a \in Occurrences(i) : a <= b

(***************************************************************************)
(* Vocabulary of the properties of handleConvert.                          *)
(***************************************************************************)
\* a conversion has ended after the text of the PDF arrived
Converted == pc = "converted" /\ Len(invoked) > 1

Invoked(fn) == \E k \in 1..Len(invoked) : invoked[k] = fn

(***************************************************************************)
(* C12: when extractLineItems returns an empty sequence, the conversion of *)
(* handleConvert ends in status 'error' with a message for the user, and   *)
(* transformData, generateCSV and downloadCSV are not invoked for it; the  *)
(* three extraction functions have all run, none of them threw (the error  *)
(* shown is the one of the empty list).                                    *)
(***************************************************************************)
C12_EmptyExtractionEndsInError ==
  (Converted /\ lineItems = <<>>) =>
    /\ app.status = "error"
    /\ app.message = <<"E","r","r","o","r",":"," ">> \o NoItemsMessage
    /\ ~Invoked("transformData")
    /\ ~Invoked("generateCSV")
    /\ ~Invoked("downloadCSV")
    /\ download = Null
    /\ Invoked("extractHeader") /\ Invoked("extractLineItems")
    /\ Invoked("extractBaseProductCode")

C12_Witness ==
  /\ Converted
  /\ lineItems = <<>>
  /\ invoked = <<"extractTextFromPDF", "extractHeader", "extractLineItems",
                 "extractBaseProductCode">>
  /\ app.status = "error"

(***************************************************************************)
(* Vocabulary of the properties of the functions called by themselves.     *)
(***************************************************************************)
\* the call of fn has returned
Applied(fn) == pc = "applied" /\ ret.fn = fn

\* the label w1 w2 is somewhere in s, in any letter case, its words together
\* or apart
HasLabel(s, w1, w2) == \E i \in 1..Len(s) : LabelEnd(s, i, w1, w2) > 0

(***************************************************************************)
(* C13: extractHeader returns for every text, and each of the seven fields *)
(* of the header is the empty string when its own anchor is not in the     *)
(* text the patterns are applied to (the normalized text), whatever the    *)
(* other fields are.  The anchors are the labels Quote Number, Quote Date, *)
(* Quote Expires, Customer Name or Company, Partner Name and Prepared By,  *)
(* and the @ of an address.                                                *)
(***************************************************************************)
EmptyWithoutAnchor(s, header) ==
  /\ ~HasLabel(s, <<"Q","u","o","t","e">>, <<"N","u","m","b","e","r">>) => header.quoteNumber = <<>>
  /\ ~HasLabel(s, <<"Q","u","o","t","e">>, <<"D","a","t","e">>) => header.quoteDate = <<>>
  /\ ~HasLabel(s, <<"Q","u","o","t","e">>, <<"E","x","p","i","r","e","s">>) => header.expires = <<>>
  /\ (~HasLabel(s, <<"C","u","s","t","o","m","e","r">>, <<"N","a","m","e">>) /\ ~HasLabel(s, <<"C","o","m","p","a","n","y">>, <<>>))
       => header.customer = <<>>
  /\ ~HasLabel(s, <<"P","a","r","t","n","e","r">>, <<"N","a","m","e">>) => header.partner = <<>>
  /\ ~HasLabel(s, <<"P","r","e","p","a","r","e","d">>, <<"B","y">>) => header.preparedBy = <<>>
  /\ ~Includes(s, "@") => header.email = <<>>

C13_AbsentAnchorEmptyField ==
  Applied("extractHeader") =>
    /\ DOMAIN ret.value = {"quoteNumber", "quoteDate", "expires", "customer",
                           "partner", "preparedBy", "email"}
    /\ EmptyWithoutAnchor(normalizePdfText(ret.arg), ret.value)

\* a head with the expiry date and the customer but no quote date, no partner
\* and no address
C13_Witness ==
  /\ Applied("extractHeader")
  /\ ret.arg \in HeaderTexts
  /\ ~HasLabel(ret.arg, <<"Q","u","o","t","e">>, <<"D","a","t","e">>)
  /\ ~HasLabel(ret.arg, <<"P","a","r","t","n","e","r">>, <<"N","a","m","e">>)
  /\ ~Includes(ret.arg, "@")
  /\ ret.value.quoteDate = <<>> /\ ret.value.partner = <<>> /\ ret.value.email = <<>>
  /\ ret.value.expires = <<"0","2","/","0","5","/","2","0","2","6">>
  /\ ret.value.customer = <<"A","c","m","e"," ","C","o","r","p">>

(***************************************************************************)
(* C14: a date written <month-name> <day>, <year>, the month name in full  *)
(* or abbreviated as the table has it, in lower case, capitalized or in    *)
(* capitals, comes out as MM/DD/YYYY: the number of the month in two       *)
(* digits, the day padded with a zero to two digits, the year.  So it is   *)
(* for parseDate called with the date, and for the quoteDate and expires   *)
(* of the header extracted from a head that prints it after the labels.    *)
(***************************************************************************)
MonthNumbers ==
  <<<<"0","1">>, <<"0","2">>, <<"0","3">>, <<"0","4">>, <<"0","5">>, <<"0","6">>, <<"0","7">>, <<"0","8">>, <<"0","9">>, <<"1","0">>, <<"1","1">>, <<"1","2">>>>

ZeroPadded(day) == IF Len(day) = 1 THEN <<"0">> \o day ELSE day

\* MM/DD/YYYY
Slashed(m, day, year) == MonthNumbers[m] \o <<"/">> \o ZeroPadded(day) \o <<"/">> \o year

WrittenDateConverted(m, name, day, year) ==
  /\ (Applied("parseDate") /\ ret.arg = WrittenDate(name, day, year))
       => ret.value = Slashed(m, day, year)
  /\ (Applied("extractHeader") /\ ret.arg = DatedText(WrittenDate(name, day, year)))
       => /\ ret.value.quoteDate = Slashed(m, day, year)
          /\ ret.value.expires = Slashed(m, day, year)

C14_WrittenDatesConverted ==
  (Applied("parseDate") \/ Applied("extractHeader")) =>
    \A m \in 1..12 : \A name \in MonthSpellings(m) :
      \A day \in DayChoices : \A year \in YearChoices :
        WrittenDateConverted(m, name, day, year)

\* the head of a quote dated SEP 5, 2026 has been extracted
C14_Witness ==
  /\ Applied("extractHeader")
  /\ ret.arg = DatedText(<<"S","E","P"," ","5",","," ","2","0","2","6">>)
  /\ ret.value.quoteDate = <<"0","9","/","0","5","/","2","0","2","6">>
  /\ ret.value.expires = <<"0","9","/","0","5","/","2","0","2","6">>

(***************************************************************************)
(* C15: parseDate returns its argument as it is when the argument is       *)
(* neither MM/DD/YYYY already nor led by a month name of the table.        *)
(***************************************************************************)
LedByMonthName(dateStr) ==
  \E m \in 1..12 : \E k \in 1..Len(MonthNames[m]) :
    /\ Len(dateStr) >= Len(MonthNames[m][k])
    /\ toLowerCase(SubSeq(dateStr, 1, Len(MonthNames[m][k]))) = MonthNames[m][k]

Unparsable(dateStr) == ~IsNumericDate(dateStr) /\ ~LedByMonthName(dateStr)

C15_UnparsableDateVerbatim ==
  (Applied("parseDate") /\ Unparsable(ret.arg)) => ret.value = ret.arg

(***************************************************************************)
(* C16: parseCurrency gives back the price formatPrice was called with,    *)
(* a number of at most two decimals that is not negative, from the         *)
(* formatted text as it is, with a $ before it, with thousands separators, *)
(* and with both.                                                          *)
(***************************************************************************)
C16_PriceRoundTrip ==
  Applied("parseCurrency") => ret.value = ret.num

\* 113400 has been formatted, printed $113,400.00 and parsed
C16_Witness ==
  /\ Applied("parseCurrency")
  /\ ret.num = Cents(11340000)
  /\ ret.arg = <<"$","1","1","3",",","4","0","0",".","0","0">>
  /\ ret.value = Int2Num(113400)

(***************************************************************************)
(* Vocabulary of the properties of the CSV text.                           *)
(***************************************************************************)
\* s with every quote written twice
RECURSIVE Doubled(_)
Doubled(s) ==
  IF s = <<>> THEN <<>>
  ELSE (IF s[1] = "\"" THEN <<"\"", "\"">> ELSE <<s[1]>>) \o Doubled(Drop(s, 2))

\* s with every pair of quotes read as one quote
RECURSIVE Undoubled(_)
Undoubled(s) ==
  IF s = <<>> THEN <<>>
  ELSE IF Len(s) >= 2 /\ s[1] = "\"" /\ s[2] = "\""
       THEN <<"\"">> \o Undoubled(Drop(s, 3))
  ELSE <<s[1]>> \o Undoubled(Drop(s, 2))

\* the value a reader of CSV takes from the field f
Unescaped(f) ==
  IF Len(f) >= 2 /\ f[1] = "\"" /\ f[Len(f)] = "\""
  THEN Undoubled(SubSeq(f, 2, Len(f) - 1))
  ELSE f

NeedsQuotes(s) == \E k \in 1..Len(s) : s[k] \in {",", "\"", "\n"}

(***************************************************************************)
(* C18: escapeCSVValue returns the empty string for null and undefined;    *)
(* for any other value it returns the string form of the value between     *)
(* quotes, its own quotes doubled, exactly when the string form has a      *)
(* comma, a quote or a newline, and the string form unchanged otherwise;   *)
(* un-escaping the result gives the string form back.                      *)
(***************************************************************************)
EscapedAs(stringValue, escaped) ==
  /\ NeedsQuotes(stringValue)
       => escaped = <<"\"">> \o Doubled(stringValue) \o <<"\"">>
  /\ ~NeedsQuotes(stringValue) => escaped = stringValue
  /\ Unescaped(escaped) = stringValue

C18_EscapeCSVValue ==
  Applied("escapeCSVValue") =>
    IF ret.arg \in {Null, Undefined} THEN ret.value = <<>>
    ELSE EscapedAs(String(ret.arg), ret.value)

\* a value with a comma, quotes and a newline has been escaped
C18_Witness ==
  /\ Applied("escapeCSVValue")
  /\ ret.arg = Str(<<"a",",","\"","b","\"","\n","c">>)
  /\ ret.value = <<"\"","a",",","\"","\"","b","\"","\"","\n","c","\"">>

\* the number of quotes of s before position k
QuotesBefore(s, k) == Cardinality({j \in 1..(k - 1) : s[j] = "\""})

\* the positions of s that hold the separator c outside quotes
Breaks(s, c) == {k \in 1..Len(s) : s[k] = c /\ QuotesBefore(s, k) % 2 = 0}

NthBreak(breaks, n) == CHOOSE b \in breaks : Cardinality({c \in breaks : c < b}) = n - 1

\* the pieces of s between the positions breaks, in order
SplitAt(s, breaks) ==
  [n \in 1..(Cardinality(breaks) + 1) |->
     SubSeq(s, IF n = 1 THEN 1 ELSE NthBreak(breaks, n - 1) + 1,
               IF n = Cardinality(breaks) + 1 THEN Len(s) ELSE NthBreak(breaks, n) - 1)]

\* the records of a CSV text and the fields of a record, as a reader of CSV
\* takes them: newlines and commas between quotes separate nothing
Records(csv) == SplitAt(csv, Breaks(csv, "\n"))

Fields(record) == SplitAt(record, Breaks(record, ","))

\* the twenty columns and the key of the row each is filled from
Columns ==
  << <<<<"Q","u","o","t","e"," ","D","a","t","e">>, "quoteDate">>, <<<<"O","p","p","o","r","t","u","n","i","t","y"," ","I","D">>, "opportunityId">>,
     <<<<"C","u","s","t","o","m","e","r"," ","N","a","m","e">>, "customerName">>, <<<<"P","a","r","t","n","e","r"," ","N","a","m","e">>, "partnerName">>,
     <<<<"P","r","e","p","a","r","e","d"," ","B","y">>, "preparedBy">>, <<<<"E","m","a","i","l">>, "email">>,
     <<<<"Q","u","o","t","e"," ","N","u","m","b","e","r">>, "quoteNumber">>, <<<<"B","a","s","e"," ","P","r","o","d","u","c","t"," ","C","o","d","e">>, "baseProductCode">>,
     <<<<"B","a","s","e"," ","D","e","s","c","r","i","p","t","i","o","n">>, "baseDescription">>, <<<<"P","r","o","d","u","c","t"," ","C","o","d","e">>, "productCode">>,
     <<<<"P","a","r","e","n","t"," ","P","r","o","d","u","c","t"," ","C","o","d","e">>, "parentProductCode">>, <<<<"L","i","s","t"," ","P","r","i","c","e">>, "listPrice">>,
     <<<<"D","i","s","c","o","u","n","t"," ","P","e","r","c","e","n","t","a","g","e">>, "discountPercentage">>,
     <<<<"D","i","s","c","o","u","n","t"," ","P","r","i","c","e">>, "discountPrice">>, <<<<"O","p","t","i","o","n"," ","Q","T","Y">>, "optionQty">>,
     <<<<"M","o","n","t","h">>, "month">>, <<<<"E","x","t","e","n","d","e","d"," ","P","r","i","c","e">>, "extendedPrice">>,
     <<<<"O","p","t","i","o","n"," ","D","e","s","c","r","i","p","t","i","o","n">>, "optionDescription">>,
     <<<<"Q","u","o","t","e"," ","E","x","p","i","r","e","s">>, "quoteExpires">>, <<<<"S","t","a","t","u","s">>, "status">> >>

\* the text of the value a row holds under key: the fields optionQty and
\* month hold a number or '', the others a string
ValueText(row, key) ==
  IF key \in {"optionQty", "month"} THEN String(row[key]) ELSE row[key]

(***************************************************************************)
(* C17: the text generateCSV returns has the record of the twenty column   *)
(* names first and then one record for each row, in the order of the rows; *)
(* every record has twenty fields, and the k-th field of the record of a   *)
(* row reads as the value the row holds for the k-th column.               *)
(***************************************************************************)
RecordOfRow(row, fields) ==
  /\ Len(fields) = 20
  /\ \A k \in 1..20 : Unescaped(fields[k]) = ValueText(row, Columns[k][2])

CsvOfRows(csvRows, records) ==
  /\ Len(records) = Len(csvRows) + 1
  /\ Fields(records[1]) = [k \in 1..20 |-> Columns[k][1]]
  /\ \A r \in 1..Len(csvRows) : RecordOfRow(csvRows[r], Fields(records[r + 1]))

C17_GenerateCSV ==
  Applied("generateCSV") => CsvOfRows(ret.arg, Records(ret.value))

\* the CSV of the rows of a care item and a service item under a header whose
\* fields have a comma, a quote and a newline: four rows, five records
C17_Witness ==
  /\ Applied("generateCSV")
  /\ Len(ret.arg) = 4
  /\ ret.arg[1].customerName = <<"A","c","m","e",","," ","I","n","c">>
  /\ ret.arg[4].month = EmptyStr
  /\ Len(Records(ret.value)) = 5
  /\ Fields(Records(ret.value)[5])[3] = <<"\"">> \o <<"A","c","m","e",","," ","I","n","c">> \o <<"\"">>

(***************************************************************************)
(* C19: end to end, the quote whose only row is                            *)
(*   VDP-VDURACare-10-HP Desc 21 60 $500.00 $90.00 $113,400.00             *)
(* gives three rows: the parent with qty 21, month 60, list price 500.00   *)
(* and discount price 90.00; the software child VDP-SW-P-10-HP with        *)
(* discount price 87.00 and extended price 109620.00; the support child    *)
(* HW-Support-HP-NBD with discount price 3.00 and extended price 3780.00.  *)
(***************************************************************************)
ScenarioRow ==
  [code |-> <<"V","D","P","-","V","D","U","R","A","C","a","r","e","-","1","0","-","H","P">>, desc |-> <<"D","e","s","c">>, qty |-> <<"2","1">>,
   months |-> <<"6","0">>, list |-> <<"$","5","0","0",".","0","0">>, disc |-> <<"$","9","0",".","0","0">>,
   ext |-> <<"$","1","1","3",",","4","0","0",".","0","0">>]

\* the text of the scenario has been extracted and transformed, by the two
\* calls one after the other or inside handleConvert
ScenarioDone ==
  /\ doc = <<ScenarioRow>>
  /\ text = <<"V","D","P","-","V","D","U","R","A","C","a","r","e","-","1","0","-","H","P"," ","D","e","s","c"," ","2","1"," ","6","0"," ","$","5","0","0",".","0","0"," ","$","9","0",".","0","0"," ","$","1","1","3",",","4","0","0",".","0","0">>
  /\ pc = "transformed" \/ (Converted /\ Invoked("transformData"))

ScenarioRows ==
  /\ Len(rows) = 3
  /\ rows[1].productCode = <<"V","D","P","-","V","D","U","R","A","C","a","r","e","-","1","0","-","H","P">>
  /\ rows[1].optionQty = Int2Num(21)
  /\ rows[1].month = Int2Num(60)
  /\ rows[1].listPrice = <<"5","0","0",".","0","0">>
  /\ rows[1].discountPrice = <<"9","0",".","0","0">>
  /\ rows[2].productCode = <<"V","D","P","-","S","W","-","P","-","1","0","-","H","P">>
  /\ rows[2].discountPrice = <<"8","7",".","0","0">>
  /\ rows[2].extendedPrice = <<"1","0","9","6","2","0",".","0","0">>
  /\ rows[3].productCode = <<"H","W","-","S","u","p","p","o","r","t","-","H","P","-","N","B","D">>
  /\ rows[3].discountPrice = <<"3",".","0","0">>
  /\ rows[3].extendedPrice = <<"3","7","8","0",".","0","0">>

C19_ScenarioThreeRows == ScenarioDone => ScenarioRows

C19_Witness ==
  /\ ScenarioDone
  /\ pc = "transformed"
  /\ Len(lineItems) = 1
  /\ lineItems[1].extendedPrice = Int2Num(113400)
  /\ rows[2].extendedPrice = <<"1","0","9","6","2","0",".","0","0">>

(***************************************************************************)
(* C20: a product code that is not followed in its own line by the numeric *)
(* fields of its family gives no line item, so no item carries its code    *)
(* (with the numbers of a later row or any other), and a row of the same   *)
(* family printed after it is extracted with its own partNo and numbers.   *)
(***************************************************************************)
FamilyOf(r) == SubSeq(r.code, 1, 3)

C20_CodeWithoutFieldsSkipped ==
  pc = "extracted" =>
    \A k \in 1..Len(doc) :
      IsNote(doc[k]) =>
        /\ \A i \in 1..Len(lineItems) : lineItems[i].partNo # doc[k].code
        /\ \A j \in (k + 1)..Len(doc) :
             (~IsNote(doc[j]) /\ FamilyOf(doc[j]) = FamilyOf(doc[k]))
               => \E i \in 1..Len(lineItems) : lineItems[i] = RowItem(doc[j])


(***************************************************************************)
(* C21: every line item extractLineItems returns, whatever the text, has   *)
(* qty > 0 and listPrice, discountPrice and extendedPrice that are not     *)
(* negative; months is null in a service and in a hardware item and an     *)
(* integer, not null, in a care item.                                      *)
(***************************************************************************)
IsInteger(v) == IsNum(v) /\ v.d = 1

\* what extractLineItems has returned, called with a row or with a quote
ReturnedItems ==
  IF Applied("extractLineItems") THEN ret.value
  ELSE IF pc = "extracted" THEN lineItems ELSE <<>>

C21_ItemInvariants ==
  \A i \in 1..Len(ReturnedItems) :
    /\ IsNum(ReturnedItems[i].qty) /\ ReturnedItems[i].qty.n > 0
    /\ ReturnedItems[i].listPrice.n >= 0
    /\ ReturnedItems[i].discountPrice.n >= 0
    /\ ReturnedItems[i].extendedPrice.n >= 0
    /\ IF LitAtI(ReturnedItems[i].partNo, 1, CarePrefix)
       THEN IsInteger(ReturnedItems[i].months)
       ELSE ReturnedItems[i].months = Null

\* the part of it that holds: all but qty > 0
C21_AllButPositiveQty ==
  \A i \in 1..Len(ReturnedItems) :
    /\ IsInteger(ReturnedItems[i].qty) /\ ReturnedItems[i].qty.n >= 0
    /\ ReturnedItems[i].listPrice.n >= 0
    /\ ReturnedItems[i].discountPrice.n >= 0
    /\ ReturnedItems[i].extendedPrice.n >= 0
    /\ IF LitAtI(ReturnedItems[i].partNo, 1, CarePrefix)
       THEN IsInteger(ReturnedItems[i].months)
       ELSE ReturnedItems[i].months = Null

(***************************************************************************)
(* C24: a product code of hyphen-joined segments, of one word character or *)
(* more each, that pdf.js gave with spaces around every hyphen comes back  *)
(* from normalizePdfText whole, S1-S2-...-Sn with no space left, also when *)
(* an inner segment is a single character.                                 *)
(***************************************************************************)
C24_SplitCodeReassembled ==
  Applied("normalizePdfText") => ret.value = Join(ret.segments, <<"-">>)

\* the part of it that holds: no inner segment is a single character
C24_LongInnerSegments ==
  Applied("normalizePdfText") =>
    ((\A k \in 2..(Len(ret.segments) - 1) : Len(ret.segments[k]) > 1)
       => ret.value = Join(ret.segments, <<"-">>))

(***************************************************************************)
(* C25: a well-formed row of its family's grammar whose integer fields are *)
(* positive, of any number of digits, gives one item whose qty, months and *)
(* prices are the values the row prints: the quantity is not merged with   *)
(* the months and no field is taken for another.                           *)
(***************************************************************************)
\* the item a row stands for, by its numbers
WrittenItem(r) ==
  [partNo        |-> r.code,
   description   |-> Desc,
   qty           |-> Int2Num(r.qty),
   months        |-> IF r.months = 0 THEN Null ELSE Int2Num(r.months),
   listPrice     |-> Int2Num(r.list),
   discountPrice |-> Int2Num(r.disc),
   extendedPrice |-> Int2Num(ExtendedOf(r))]

C25_FieldsAsWritten ==
  Applied("extractLineItems") =>
    (ret.row.qty > 0 => ret.value = <<WrittenItem(ret.row)>>)

\* the part of it that holds: the rows where a quantity of three digits or
\* more is not followed by a term of one digit
C25_NoShortTermAfterLongQty ==
  Applied("extractLineItems") =>
    ((ret.row.qty > 0 /\ ~(ret.row.qty >= 100 /\ ret.row.months \in 1..9))
       => ret.value = <<WrittenItem(ret.row)>>)

(***************************************************************************)
(* C22: in every output of transformData a row has a parentProductCode     *)
(* that is not empty exactly when it is a derived child row, and it is the *)
(* productCode of the nearest parent row before it, the row of the care    *)
(* item it was derived from; every parent row and every row of a non-care  *)
(* item has parentProductCode ''.                                          *)
(***************************************************************************)
\* transformData has returned rows, called by itself or by handleConvert
HasOutput == pc = "transformed" \/ (Converted /\ download # Null)

\* the item that contributed row k
ItemOfRow(k) ==
  CHOOSE i \in 1..Len(lineItems) : FirstRow(i) <= k /\ k < FirstRow(i + 1)

\* row k is one of the two rows that follow the parent row of its item
IsChildRow(k) == k > FirstRow(ItemOfRow(k))

C22_ParentProductCode ==
  HasOutput =>
    /\ Len(rows) = TotalRows
    /\ \A k \in 1..Len(rows) :
         IF IsChildRow(k)
         THEN /\ rows[k].parentProductCode # <<>>
              /\ rows[k].parentProductCode = ParentRow(ItemOfRow(k)).productCode
              /\ rows[k].parentProductCode = lineItems[ItemOfRow(k)].partNo
         ELSE rows[k].parentProductCode = <<>>

\* two care items of different tiers and codes: the children of the second
\* follow two parent rows
C22_Witness ==
  /\ pc = "transformed"
  /\ Len(lineItems) = 2
  /\ lineItems[1].partNo = PartHP
  /\ lineItems[2].partNo = PartC
  /\ Len(rows) = 6
  /\ rows[5].parentProductCode = PartC
  /\ rows[4].parentProductCode = <<>>

(***************************************************************************)
(* C23: every row of one call of transformData, parent or child, has the   *)
(* quoteDate, customerName, partnerName, preparedBy, email, quoteNumber    *)
(* and quoteExpires of the header given, the opportunityId and the         *)
(* baseProductCode given, unchanged, and the status 'New'; the header and  *)
(* the line items handed in are not modified.                              *)
(***************************************************************************)
InheritsHeader(row) ==
  /\ row.quoteDate = call.header.quoteDate
  /\ row.customerName = call.header.customer
  /\ row.partnerName = call.header.partner
  /\ row.preparedBy = call.header.preparedBy
  /\ row.email = call.header.email
  /\ row.quoteNumber = call.header.quoteNumber
  /\ row.quoteExpires = call.header.expires
  /\ row.opportunityId = call.opportunityId
  /\ row.baseProductCode = call.baseProductCode
  /\ row.status = <<"N","e","w">>

\* the arguments after a call by itself are the ones handed in
ArgumentsKept ==
  (pc = "transformed" /\ doc = <<>>) =>
    /\ call \in CallChoices
    /\ \A i \in 1..Len(lineItems) : lineItems[i] \in ItemChoices

C23_HeaderFieldsInherited ==
  /\ HasOutput => \A k \in 1..Len(rows) : InheritsHeader(rows[k])
  /\ ArgumentsKept

C23_Witness ==
  /\ pc = "transformed"
  /\ call.header = SampleHeader
  /\ call.baseProductCode = <<"v","7","0","0","0">>
  /\ Len(rows) = 4
  /\ rows[4].quoteNumber = SampleHeader.quoteNumber
  /\ rows[3].parentProductCode # <<>>

(***************************************************************************)
(* C26: in the App, after any sequence of file selections, edits of the    *)
(* ID, clicks on Convert and clicks on Reset, a conversion is started only *)
(* in a state where a file is selected and opportunityId has exactly 18    *)
(* characters; opportunityId never has more than 18 characters, and the    *)
(* file selected is null or a file of type application/pdf.                *)
(***************************************************************************)
IsPdfOrNull(file) == IF file = Null THEN TRUE ELSE file.type = "application/pdf"

\* what a run of handleConvert closed over is the form it was started in
StartedValid(conversion) ==
  /\ conversion.file # Null
  /\ Len(conversion.opportunityId) = 18

C26_FormGuardsConversion ==
  /\ Len(app.opportunityId) <= 18
  /\ IsPdfOrNull(app.file)
  /\ \A k \in 1..Len(conversions) : StartedValid(conversions[k])

\* a second conversion, started after a reset of the form
C26_Witness ==
  /\ pc = "parsing"
  /\ Len(conversions) = 2
  /\ conversions[2].state = "awaiting"
  /\ app.file = PdfFile
  /\ Len(app.opportunityId) = 18

(***************************************************************************)
(* C27: in the App at most one conversion is in progress at any time, and  *)
(* once Reset has been clicked the status and the message stay cleared     *)
(* (null and '') and no CSV is downloaded until the user starts a new      *)
(* conversion, also when Reset is clicked while an earlier conversion      *)
(* still awaits the text of the PDF.                                       *)
(***************************************************************************)
OneInProgress == Cardinality(Awaiting) <= 1

\* a step from a state where the last click was on Reset: a click on Convert, or
\* a step that leaves status and message cleared and downloads nothing
ClearedAfterReset ==
  pc = "reset" =>
    \/ pc' = "parsing"
    \/ /\ app'.status = NoStatus
       /\ app'.message = <<>>
       /\ download' = download

C27_OneConversionResetClears == []OneInProgress /\ [][ClearedAfterReset]_vars

\* the parts of it, each of which fails
C27_OneInProgress == OneInProgress

C27_ClearedAfterReset == [][ClearedAfterReset]_vars
====
